---- MODULE Spec2Model ----
(***************************************************************************)
(* Seed-protection subsystem of the wallet front-end:                      *)
(*   - the PIN attempt tracker (utils/crypto/pinAttemptTracker.ts),        *)
(*   - the seed cipher (crypto worker and WalletEncryptionUtil),           *)
(*   - the crypto worker pool client (utils/crypto/cryptoWorkerClient.ts), *)
(*   - the bridge key exchange (utils/crypto/bridgeCrypto.ts, ML-KEM).     *)
(*   - two browsing contexts that record failed attempts in the shared    *)
(*     localStorage item,                                                  *)
(*   - the call sites that test or change the PIN (Settings, account       *)
(*     creation, the native-app bridge handlers).                          *)
(* Each subsystem has its own specification (SpecTracker, SpecCipher,      *)
(* SpecPool, SpecBridge, SpecContexts, SpecWallet) over the variables it   *)
(* owns; the others stay at their initial values.                          *)
(***************************************************************************)
EXTENDS Integers, Sequences, FiniteSets, TLC

VARIABLES
  \* ---- attempt tracker ----
  stored,     \* localStorage item 'pin_attempt_tracker': [present, data]
  now,        \* Date.now()
  ret,        \* the last tracker call: operation, time, state before, result
  streak,     \* history: recordFailedAttempt calls since the tracker was last empty
  \* ---- seed cipher ----
  env,        \* the serialized envelope at hand (as kept by the key-value store)
  origin,     \* history: how env was made (by, mnemonic, hexSeed, pin, salt, iv, iterations)
  cres,       \* the last cipher call: operation, implementation, inputs, outcome
  \* ---- worker pool client ----
  hardwareConcurrency,  \* navigator.hardwareConcurrency (0: not reported)
  workerPool,           \* workerPool: the pooled workers, in order
  pooled,               \* the PooledWorker objects: worker |-> [busy, idleTimer]
  requestIdCounter,     \* requestIdCounter
  listeners,            \* registered (message, error) handler pairs: [worker, requestId]
  inbox,                \* worker |-> messages posted to it, not yet handled
  outbox,               \* worker |-> responses it posted, not yet dispatched
  terminated,           \* workers on which terminate() was called
  timers,               \* pending idle timeouts: [worker, timer]
  timerCounter,         \* timeouts created so far
  request,              \* history: requestId |-> [worker, outcome in the worker, fallback]
  promise,              \* requestId |-> the promise postToWorker returned
  \* ---- bridge key exchange ----
  state,                \* this.state: the DecapsulatorState, or null
  onReadyCallbacks,     \* this.onReadyCallbacks: the waiters whose callback is listed
  waiters,              \* waiter |-> the promise of its waitForReady call and its timeout
  waiterCounter,        \* waitForReady calls so far
  keygenCounter,        \* ml_kem1024.keygen() calls so far
  exchange,             \* the completeKeyExchange suspended at await deriveAesKey
  publicKeyCall,        \* the getPublicKey suspended at await generateKeyPair
  zeroed,               \* the byte buffers that fill(0) has overwritten
  readySince,           \* history: completeKeyExchange returned true since the last
                        \* generateKeyPair or reset
  bres,                 \* the last bridge call: operation, state before, result
  \* ---- browsing contexts sharing localStorage ----
  context,              \* context |-> where its recordFailedAttempt call stands
  completed,            \* history: recordFailedAttempt calls that have returned
  stale,                \* history: a call wrote over an item changed since it read
  \* ---- PIN call sites ----
  seeds,                \* the stored encrypted seeds of the blockchain, in order
  form,                 \* AccountCreationForm's state: hasExistingSeeds, existingSeeds
  flow                  \* the last run of a call site: inputs, what it did, outcome

trackerVars == <<stored, now, ret, streak>>

cipherVars == <<env, origin, cres>>

poolVars == <<hardwareConcurrency, workerPool, pooled, requestIdCounter, listeners,
              inbox, outbox, terminated, timers, timerCounter, request, promise>>

bridgeVars == <<state, onReadyCallbacks, waiters, waiterCounter, keygenCounter,
                exchange, publicKeyCall, zeroed, readySince, bres>>

contextVars == <<context, completed, stale>>

walletVars == <<seeds, form, flow>>

vars == <<stored, now, ret, streak, env, origin, cres,
          hardwareConcurrency, workerPool, pooled, requestIdCounter, listeners,
          inbox, outbox, terminated, timers, timerCounter, request, promise,
          state, onReadyCallbacks, waiters, waiterCounter, keygenCounter,
          exchange, publicKeyCall, zeroed, readySince, bres,
          context, completed, stale, seeds, form, flow>>

-----------------------------------------------------------------------------
(* Bounds of the model                                                     *)

\* the clock advances MaxTicks times, StepMs at a time
MaxTicks == 8
\* recordFailedAttempt is not called once the counter has reached MaxFailed
MaxFailed == 7
\* postToWorker is called at most MaxRequests times
MaxRequests == 3
\* ml_kem1024.keygen() returns at most MaxKeyPairs key pairs
MaxKeyPairs == 2
\* waitForReady is called at most MaxWaiters times
MaxWaiters == 2
\* at most MaxSeeds encrypted seeds are stored
MaxSeeds == 2
\* the contexts call recordFailedAttempt at most MaxContextCalls times in all
MaxContextCalls == 6
\* while they do, the clock advances MaxContextTicks times
MaxContextTicks == 2

StepMs == 5 * 60 * 1000
StartMs == StepMs

-----------------------------------------------------------------------------
(* Attempt tracker: pinAttemptTracker.ts                                   *)

MAX_ATTEMPTS == 5
LOCKOUT_DURATION_MS == 15 * 60 * 1000

\* lockoutUntil: number | null. The code tests it by truthiness
\* (if (data.lockoutUntil)), under which null and 0 are the same.
NullTime == 0

AttemptData(f, l, t) == [failedAttempts |-> f, lockoutUntil |-> l, lastAttemptTime |-> t]

DefaultAttemptData == AttemptData(0, NullTime, 0)

NoItem == [present |-> FALSE, data |-> DefaultAttemptData]

Item(d) == [present |-> TRUE, data |-> d]

\* getAttemptData(): the stored item, or the default when there is none
getAttemptData(st) == IF st.present THEN st.data ELSE DefaultAttemptData

\* setAttemptData(data)
setAttemptData(d) == Item(d)

Max(a, b) == IF a >= b THEN a ELSE b

\* checkLockout(): [stored, isLocked, remainingMs]
checkLockoutMutAlwaysReset(st, t) ==
  LET data == getAttemptData(st) IN
  IF data.lockoutUntil # NullTime
  THEN [stored |-> setAttemptData(DefaultAttemptData), isLocked |-> FALSE, remainingMs |-> 0]
  ELSE [stored |-> st, isLocked |-> FALSE, remainingMs |-> 0]

checkLockoutMutNoReset(st, t) ==
  LET data == getAttemptData(st) IN
  IF data.lockoutUntil # NullTime /\ t < data.lockoutUntil
  THEN [stored |-> st, isLocked |-> TRUE, remainingMs |-> data.lockoutUntil - t]
  ELSE [stored |-> st, isLocked |-> FALSE, remainingMs |-> 0]

checkLockout(st, t) ==
  LET data == getAttemptData(st) IN
  IF data.lockoutUntil # NullTime
  THEN IF t < data.lockoutUntil
       THEN [stored |-> st, isLocked |-> TRUE, remainingMs |-> data.lockoutUntil - t]
       ELSE [stored |-> setAttemptData(DefaultAttemptData),
             isLocked |-> FALSE, remainingMs |-> 0]
  ELSE [stored |-> st, isLocked |-> FALSE, remainingMs |-> 0]

\* recordFailedAttempt(): [stored, isLocked, remainingMs, attemptsLeft]
recordFailedAttemptMutOffByOne(st, t) ==
  LET data == getAttemptData(st)
      n == data.failedAttempts + 1 IN
  IF n > MAX_ATTEMPTS
  THEN [stored |-> setAttemptData(AttemptData(n, t + LOCKOUT_DURATION_MS, t)),
        isLocked |-> TRUE, remainingMs |-> LOCKOUT_DURATION_MS, attemptsLeft |-> 0]
  ELSE [stored |-> setAttemptData(AttemptData(n, data.lockoutUntil, t)),
        isLocked |-> FALSE, remainingMs |-> 0, attemptsLeft |-> MAX_ATTEMPTS - n]

recordFailedAttemptMutKeepWindow(st, t) ==
  LET data == getAttemptData(st)
      n == data.failedAttempts + 1 IN
  IF n >= MAX_ATTEMPTS
  THEN [stored |-> setAttemptData(AttemptData(n,
                     IF data.lockoutUntil # NullTime /\ t < data.lockoutUntil
                     THEN data.lockoutUntil ELSE t + LOCKOUT_DURATION_MS, t)),
        isLocked |-> TRUE, remainingMs |-> LOCKOUT_DURATION_MS, attemptsLeft |-> 0]
  ELSE [stored |-> setAttemptData(AttemptData(n, data.lockoutUntil, t)),
        isLocked |-> FALSE, remainingMs |-> 0, attemptsLeft |-> MAX_ATTEMPTS - n]

recordFailedAttempt(st, t) ==
  LET data == getAttemptData(st)
      n == data.failedAttempts + 1 IN
  IF n >= MAX_ATTEMPTS
  THEN [stored |-> setAttemptData(AttemptData(n, t + LOCKOUT_DURATION_MS, t)),
        isLocked |-> TRUE, remainingMs |-> LOCKOUT_DURATION_MS, attemptsLeft |-> 0]
  ELSE [stored |-> setAttemptData(AttemptData(n, data.lockoutUntil, t)),
        isLocked |-> FALSE, remainingMs |-> 0, attemptsLeft |-> MAX_ATTEMPTS - n]

\* a recordSuccessfulAttempt that resets the counter and keeps the lockout
recordSuccessfulAttemptMutKeepLock(st) ==
  setAttemptData(AttemptData(0, getAttemptData(st).lockoutUntil, 0))

\* recordSuccessfulAttempt(): the stored item afterwards
recordSuccessfulAttempt(st) == setAttemptData(DefaultAttemptData)

\* clearAttemptTracker(): the stored item afterwards (removed)
clearAttemptTracker(st) == NoItem

\* getRemainingAttempts()
getRemainingAttempts(st) == Max(0, MAX_ATTEMPTS - getAttemptData(st).failedAttempts)

\* hasFailedAttempts()
hasFailedAttempts(st) == getAttemptData(st).failedAttempts > 0

\* the record of a tracker call
Call(op, pre, locked, remaining, left) ==
  [op |-> op, time |-> now, pre |-> getAttemptData(pre), wasPresent |-> pre.present,
   isLocked |-> locked, remainingMs |-> remaining, attemptsLeft |-> left]

TrackerInit ==
  /\ stored = NoItem
  /\ now = StartMs
  /\ ret = [op |-> "none", time |-> StartMs, pre |-> DefaultAttemptData,
            wasPresent |-> FALSE,
            isLocked |-> FALSE, remainingMs |-> 0, attemptsLeft |-> MAX_ATTEMPTS]
  /\ streak = 0

Tick ==
  /\ now < StartMs + MaxTicks * StepMs
  /\ now' = now + StepMs
  /\ UNCHANGED <<stored, ret, streak>>
  /\ UNCHANGED <<cipherVars, poolVars, bridgeVars, contextVars, walletVars>>

CheckLockout ==
  LET r == checkLockout(stored, now) IN
  /\ stored' = r.stored
  /\ ret' = Call("checkLockout", stored, r.isLocked, r.remainingMs,
                 getRemainingAttempts(r.stored))
  /\ streak' = IF r.stored # stored THEN 0 ELSE streak
  /\ UNCHANGED now
  /\ UNCHANGED <<cipherVars, poolVars, bridgeVars, contextVars, walletVars>>

RecordFailedAttempt ==
  LET r == recordFailedAttempt(stored, now) IN
  /\ getAttemptData(stored).failedAttempts < MaxFailed
  /\ stored' = r.stored
  /\ ret' = Call("recordFailedAttempt", stored, r.isLocked, r.remainingMs, r.attemptsLeft)
  /\ streak' = streak + 1
  /\ UNCHANGED now
  /\ UNCHANGED <<cipherVars, poolVars, bridgeVars, contextVars, walletVars>>

RecordSuccessfulAttempt ==
  /\ stored' = recordSuccessfulAttempt(stored)
  /\ ret' = Call("recordSuccessfulAttempt", stored, FALSE, 0, MAX_ATTEMPTS)
  /\ streak' = 0
  /\ UNCHANGED now
  /\ UNCHANGED <<cipherVars, poolVars, bridgeVars, contextVars, walletVars>>

ClearAttemptTracker ==
  /\ stored' = clearAttemptTracker(stored)
  /\ ret' = Call("clearAttemptTracker", stored, FALSE, 0, MAX_ATTEMPTS)
  /\ streak' = 0
  /\ UNCHANGED now
  /\ UNCHANGED <<cipherVars, poolVars, bridgeVars, contextVars, walletVars>>

GetRemainingAttempts ==
  /\ ret' = Call("getRemainingAttempts", stored, FALSE, 0, getRemainingAttempts(stored))
  /\ UNCHANGED <<stored, now, streak>>
  /\ UNCHANGED <<cipherVars, poolVars, bridgeVars, contextVars, walletVars>>

HasFailedAttempts ==
  /\ ret' = Call("hasFailedAttempts", stored, hasFailedAttempts(stored), 0,
                 getRemainingAttempts(stored))
  /\ UNCHANGED <<stored, now, streak>>
  /\ UNCHANGED <<cipherVars, poolVars, bridgeVars, contextVars, walletVars>>

TrackerNext ==
  \/ Tick
  \/ CheckLockout
  \/ RecordFailedAttempt
  \/ RecordSuccessfulAttempt
  \/ ClearAttemptTracker
  \/ GetRemainingAttempts
  \/ HasFailedAttempts

-----------------------------------------------------------------------------
(* Seed cipher: the crypto worker (current and earlier revision) and       *)
(* WalletEncryptionUtil                                                    *)

PIN_VERSION == "pin_v3"
ITERATIONS == 600000
ITERATIONS_V3 == 600000
ITERATIONS_V2 == 100000
ITERATIONS_V1 == 5000

\* PINs are strings, modelled as sequences of characters
Digits == {"0", "1", "2", "3", "4", "5", "6", "7", "8", "9"}
Pin1234 == <<"1", "2", "3", "4">>
Pin123456 == <<"1", "2", "3", "4", "5", "6">>
Pin123 == <<"1", "2", "3">>
Pins == {Pin1234, Pin123456, Pin123}

\* validatePin: /^\d{4,6}$/
validatePin(pin) ==
  /\ Len(pin) >= 4
  /\ Len(pin) <= 6
  /\ \A i \in 1..Len(pin) : pin[i] \in Digits

Seed(m, h) == [mnemonic |-> m, hexSeed |-> h]
Seeds == {Seed("abandon about", "0x01ab"), Seed("zoo wrong", "0xffee")}
NoSeed == Seed("", "")

\* CryptoJS.lib.WordArray.random(128 / 8), twice: the salt and the iv of an
\* encryption, byte arrays shortened to two bytes
RandomDraws == {[salt |-> <<10, 243>>, iv |-> <<0, 255>>],
                [salt |-> <<0, 255>>, iv |-> <<171, 9>>]}

HexChars == <<"0", "1", "2", "3", "4", "5", "6", "7", "8", "9",
              "a", "b", "c", "d", "e", "f">>

\* WordArray.toString(): CryptoJS.enc.Hex.stringify, two hex digits a byte
HexStringify(bytes) ==
  [i \in 1..(2 * Len(bytes)) |->
     IF i % 2 = 1 THEN HexChars[(bytes[(i + 1) \div 2] \div 16) + 1]
                  ELSE HexChars[(bytes[i \div 2] % 16) + 1]]

HexVal(c) == (CHOOSE k \in 1..16 : HexChars[k] = c) - 1

\* CryptoJS.enc.Hex.parse: parseInt of each pair of hex digits
HexParse(chars) ==
  [i \in 1..(Len(chars) \div 2) |-> 16 * HexVal(chars[2 * i - 1]) + HexVal(chars[2 * i])]

\* CryptoJS.PBKDF2(pin, salt, {keySize: 256/32, iterations}): an ideal key
\* derivation, the key stands for (and only for) its three inputs
PBKDF2(pin, salt, iterations) == [pin |-> pin, salt |-> salt, iterations |-> iterations]

NoKey == PBKDF2(<<>>, <<>>, 0)

\* CryptoJS.AES.encrypt(JSON.stringify({mnemonic, hexSeed}), key, {iv}).toString():
\* an ideal cipher, the ciphertext stands for plaintext, key and iv
AESEncrypt(seed, key, iv) == [pt |-> seed, key |-> key, iv |-> iv]

NoCiphertext == AESEncrypt(NoSeed, NoKey, <<>>)

\* What AES-CBC decryption under a wrong key or iv yields
Garbage == {"malformed_utf8", "empty", "utf8_not_json"}

\* CryptoJS.AES.decrypt(encryptedData, key, {iv}): the plaintext bytes under the
\* key and iv of the encryption, garbage g otherwise
AESDecrypt(ct, key, iv, g) ==
  IF ct.key = key /\ ct.iv = iv
  THEN [kind |-> "json", value |-> ct.pt]
  ELSE [kind |-> g, value |-> NoSeed]

\* The serialized envelope: text that is not JSON, JSON null, or a JSON object
\* with the fields in `has`
Envelope(shape, has, ct, salt, iv, version) ==
  [shape |-> shape, has |-> has, encryptedData |-> ct, salt |-> salt, iv |-> iv,
   version |-> version]

EnvelopeFields == {"encryptedData", "salt", "iv", "version", "timestamp"}

NotJsonEnvelope == Envelope("not_json", {}, NoCiphertext, <<>>, <<>>, "undefined")
JsonNullEnvelope == Envelope("json_null", {}, NoCiphertext, <<>>, <<>>, "undefined")
EmptyObjectEnvelope == Envelope("object", {}, NoCiphertext, <<>>, <<>>, "undefined")

WellFormed(e) == e.shape = "object" /\ {"encryptedData", "salt", "iv"} \subseteq e.has

\* getIterations of the current worker
getIterationsMutV1(version) == ITERATIONS_V1

getIterations(version) == ITERATIONS

\* getIterations of the worker's earlier revision
getIterationsLegacy(version) ==
  IF version = "pin_v3" THEN ITERATIONS_V3
  ELSE IF version = "pin_v2" THEN ITERATIONS_V2
  ELSE ITERATIONS_V1

\* decryptSeedWithPin: parsed.version === 'pin_v3' ? 600000 : 5000
SyncIterations(version) == IF version = "pin_v3" THEN 600000 ELSE 5000

\* encryptSeed of the worker (either revision): no PIN validation
encryptSeed(seed, pin, salt, iv) ==
  Envelope("object", EnvelopeFields,
           AESEncrypt(seed, PBKDF2(pin, salt, ITERATIONS), iv),
           HexStringify(salt), HexStringify(iv), PIN_VERSION)

\* an outcome of a cipher call
Ok(seed, out, its) ==
  [ok |-> TRUE, code |-> "none", value |-> seed, out |-> out, iterations |-> its]

Fail(code, its) ==
  [ok |-> FALSE, code |-> code, value |-> NoSeed, out |-> NotJsonEnvelope,
   iterations |-> its]

\* What the steps after JSON.parse(encryptedData) do on an envelope that is not
\* an object with salt, iv and encryptedData: a TypeError (property of null,
\* Hex.parse(undefined), AES.decrypt(undefined))
ThrowsTypeError(e) == ~WellFormed(e)

\* decryptSeed of the current worker; the error is the code the handler's catch
\* puts in its response (a CryptoError's code, UNKNOWN for any other throw)
decryptSeedMutNoUtf8Catch(e, pin, g) ==
  IF e.shape = "not_json" THEN Fail("INVALID_DATA", 0)
  ELSE IF ThrowsTypeError(e) THEN Fail("UNKNOWN", 0)
  ELSE
    LET iterations == getIterations(IF "version" \in e.has THEN e.version ELSE "undefined")
        key == PBKDF2(pin, HexParse(e.salt), iterations)
        decrypted == AESDecrypt(e.encryptedData, key, HexParse(e.iv), g)
    IN  IF decrypted.kind \in {"malformed_utf8", "empty"} THEN Fail("UNKNOWN", iterations)
        ELSE IF decrypted.kind = "utf8_not_json" THEN Fail("INCORRECT_PIN", iterations)
        ELSE Ok(decrypted.value, NotJsonEnvelope, iterations)

decryptSeed(e, pin, g) ==
  IF e.shape = "not_json" THEN Fail("INVALID_DATA", 0)
  ELSE IF ThrowsTypeError(e) THEN Fail("UNKNOWN", 0)
  ELSE
    LET iterations == getIterations(IF "version" \in e.has THEN e.version ELSE "undefined")
        key == PBKDF2(pin, HexParse(e.salt), iterations)
        decrypted == AESDecrypt(e.encryptedData, key, HexParse(e.iv), g)
    IN  IF decrypted.kind \in {"malformed_utf8", "empty"} THEN Fail("INCORRECT_PIN", iterations)
        ELSE IF decrypted.kind = "utf8_not_json" THEN Fail("INCORRECT_PIN", iterations)
        ELSE Ok(decrypted.value, NotJsonEnvelope, iterations)

\* decryptSeed of the worker's earlier revision: every throw reaches the
\* handler's catch, whose response carries a message and no code
decryptSeedLegacy(e, pin, g) ==
  IF e.shape = "not_json" \/ ThrowsTypeError(e) THEN Fail("NO_CODE", 0)
  ELSE
    LET iterations == getIterationsLegacy(IF "version" \in e.has THEN e.version
                                          ELSE "undefined")
        key == PBKDF2(pin, HexParse(e.salt), iterations)
        decrypted == AESDecrypt(e.encryptedData, key, HexParse(e.iv), g)
    IN  IF decrypted.kind # "json" THEN Fail("NO_CODE", iterations)
        ELSE Ok(decrypted.value, NotJsonEnvelope, iterations)

\* WalletEncryptionUtil.decryptSeedWithPin: one try block, every throw becomes
\* a PinDecryptionError
decryptSeedWithPin(e, pin, g) ==
  IF e.shape = "not_json" \/ ThrowsTypeError(e) THEN Fail("PinDecryptionError", 0)
  ELSE
    LET iterations == SyncIterations(IF "version" \in e.has THEN e.version ELSE "undefined")
        key == PBKDF2(pin, HexParse(e.salt), iterations)
        decrypted == AESDecrypt(e.encryptedData, key, HexParse(e.iv), g)
    IN  IF decrypted.kind # "json" THEN Fail("PinDecryptionError", iterations)
        ELSE Ok(decrypted.value, NotJsonEnvelope, iterations)

\* WalletEncryptionUtil.encryptSeedWithPin
encryptSeedWithPin(seed, pin, salt, iv) ==
  IF ~validatePin(pin) THEN Fail("Invalid PIN format", 0)
  ELSE Ok(NoSeed,
          Envelope("object", EnvelopeFields,
                   AESEncrypt(seed, PBKDF2(pin, salt, 600000), iv),
                   HexStringify(salt), HexStringify(iv), "pin_v3"),
          600000)

\* The implementations: the current worker, its earlier revision, and the
\* synchronous WalletEncryptionUtil
Impls == {"worker", "legacyWorker", "sync"}

\* encrypt, by implementation
Encrypt(impl, seed, pin, salt, iv) ==
  IF impl = "sync" THEN encryptSeedWithPin(seed, pin, salt, iv)
  ELSE Ok(NoSeed, encryptSeed(seed, pin, salt, iv),
          IF impl = "worker" THEN ITERATIONS ELSE ITERATIONS_V3)

\* decrypt, by implementation
Decrypt(impl, e, pin, g) ==
  IF impl = "worker" THEN decryptSeed(e, pin, g)
  ELSE IF impl = "legacyWorker" THEN decryptSeedLegacy(e, pin, g)
  ELSE decryptSeedWithPin(e, pin, g)

\* reEncrypt, by implementation: decrypt with the old PIN, encrypt the result
\* with the new one
ReEncrypt(impl, e, oldPin, newPin, g, salt, iv) ==
  LET d == Decrypt(impl, e, oldPin, g) IN
  IF ~d.ok THEN d
  ELSE LET r == Encrypt(impl, d.value, newPin, salt, iv) IN
       IF r.ok THEN Ok(d.value, r.out, d.iterations) ELSE r

\* An envelope written by an earlier revision of the cipher (or by hand): the
\* given version tag over a key derived with the given iteration count
StoredEnvelope(seed, pin, salt, iv, version, iterations, has) ==
  Envelope("object", has, AESEncrypt(seed, PBKDF2(pin, salt, iterations), iv),
           HexStringify(salt), HexStringify(iv), version)

Origin(by, seed, pin, salt, iv, iterations) ==
  [by |-> by, seed |-> seed, pin |-> pin, salt |-> salt, iv |-> iv,
   iterations |-> iterations]

NoOrigin == Origin("malformed", NoSeed, <<>>, <<>>, <<>>, 0)

\* a stored envelope of an earlier version, with how it was made
Stored(version, iterations, has) ==
  LET seed == Seed("abandon about", "0x01ab")
      salt == <<10, 243>>
      iv == <<0, 255>>
  IN  [env |-> StoredEnvelope(seed, Pin1234, salt, iv, version, iterations, has),
       origin |-> Origin("stored", seed, Pin1234, salt, iv, iterations)]

\* What the key-value store may hold: envelopes of earlier versions (pin_v1 at
\* 5,000 iterations, pin_v2 at 100,000, no or an unknown version tag at 5,000)
\* and strings that are no envelope
StoredEnvelopes ==
  { Stored("pin_v1", 5000, EnvelopeFields),
    Stored("pin_v2", 100000, EnvelopeFields),
    Stored("pin_v0", 5000, EnvelopeFields),
    Stored("undefined", 5000, EnvelopeFields \ {"version"}),
    [env |-> NotJsonEnvelope, origin |-> NoOrigin],
    [env |-> JsonNullEnvelope, origin |-> NoOrigin],
    [env |-> EmptyObjectEnvelope, origin |-> NoOrigin],
    [env |-> Envelope("object", {"salt", "iv", "version"}, NoCiphertext,
                      HexStringify(<<10, 243>>), HexStringify(<<0, 255>>), "pin_v3"),
     origin |-> NoOrigin] }

\* the record of a cipher call
CipherCall(op, impl, pin, newPin, seed, r, g) ==
  [op |-> op, impl |-> impl, env |-> IF op = "encrypt" THEN NotJsonEnvelope ELSE env,
   origin |-> IF op = "encrypt" THEN NoOrigin ELSE origin,
   pin |-> pin, newPin |-> newPin, seed |-> seed,
   garbage |-> g, ok |-> r.ok, code |-> r.code, value |-> r.value, out |-> r.out,
   iterations |-> r.iterations]

\* the garbage a decryption yields matters only when key or iv differ
GarbageUsed(impl, e, pin, g) ==
  IF WellFormed(e) /\ ~Decrypt(impl, e, pin, g).ok THEN g ELSE "none"

CipherInit ==
  /\ \E s \in StoredEnvelopes : env = s.env /\ origin = s.origin
  /\ cres = [op |-> "none", impl |-> "worker", env |-> NotJsonEnvelope,
             origin |-> NoOrigin, pin |-> <<>>, newPin |-> <<>>, seed |-> NoSeed,
             garbage |-> "none", ok |-> TRUE, code |-> "none", value |-> NoSeed,
             out |-> NotJsonEnvelope, iterations |-> 0]

\* encryptSeedAsync / encryptSeedWithPin; the caller stores the envelope
CipherEncrypt ==
  \E impl \in Impls, seed \in Seeds, pin \in Pins, rnd \in RandomDraws :
    LET r == Encrypt(impl, seed, pin, rnd.salt, rnd.iv) IN
    /\ cres' = CipherCall("encrypt", impl, pin, <<>>, seed, r, "none")
    /\ env' = IF r.ok THEN r.out ELSE env
    /\ origin' = IF r.ok
                 THEN Origin("encrypt", seed, pin, rnd.salt, rnd.iv,
                             r.out.encryptedData.key.iterations)
                 ELSE origin
    /\ UNCHANGED <<trackerVars, poolVars, bridgeVars, contextVars, walletVars>>

\* decryptSeedAsync / decryptSeedWithPin
CipherDecrypt ==
  \E impl \in Impls, pin \in Pins, g \in Garbage :
    LET r == Decrypt(impl, env, pin, g) IN
    /\ cres' = CipherCall("decrypt", impl, pin, <<>>, NoSeed, r,
                          GarbageUsed(impl, env, pin, g))
    /\ UNCHANGED <<env, origin>>
    /\ UNCHANGED <<trackerVars, poolVars, bridgeVars, contextVars, walletVars>>

\* reEncryptSeedAsync / reEncryptSeed; the caller stores the new envelope
CipherReEncrypt ==
  \E impl \in Impls, oldPin \in Pins, newPin \in Pins, g \in Garbage,
     rnd \in RandomDraws :
    LET r == ReEncrypt(impl, env, oldPin, newPin, g, rnd.salt, rnd.iv) IN
    /\ cres' = CipherCall("reEncrypt", impl, oldPin, newPin, NoSeed, r,
                          GarbageUsed(impl, env, oldPin, g))
    /\ env' = IF r.ok THEN r.out ELSE env
    /\ origin' = IF r.ok
                 THEN Origin("reEncrypt", r.value, newPin, rnd.salt, rnd.iv,
                             r.out.encryptedData.key.iterations)
                 ELSE origin
    /\ UNCHANGED <<trackerVars, poolVars, bridgeVars, contextVars, walletVars>>

CipherNext ==
  \/ CipherEncrypt
  \/ CipherDecrypt
  \/ CipherReEncrypt

NoCipherCall ==
  [op |-> "none", impl |-> "worker", env |-> NotJsonEnvelope,
   origin |-> NoOrigin, pin |-> <<>>, newPin |-> <<>>, seed |-> NoSeed,
   garbage |-> "none", ok |-> TRUE, code |-> "none", value |-> NoSeed,
   out |-> NotJsonEnvelope, iterations |-> 0]

\* the cipher, not in use
CipherIdle ==
  /\ env = NotJsonEnvelope
  /\ origin = NoOrigin
  /\ cres = NoCipherCall

-----------------------------------------------------------------------------
(* Worker pool client: cryptoWorkerClient.ts, and the worker's message     *)
(* handler                                                                 *)

\* the workers new CryptoWorker() can create: one a request at most
Workers == 1..MaxRequests

RequestIds == 1..MaxRequests

\* idleTimer: null
NoTimer == 0

\* navigator.hardwareConcurrency, 0 when the browser does not report it
HardwareConcurrencies == {0, 1, 8}

Min(a, b) == IF a <= b THEN a ELSE b

\* MAX_WORKERS = Math.min(navigator.hardwareConcurrency || 2, 4)
MAX_WORKERS == Min(IF hardwareConcurrency = 0 THEN 2 ELSE hardwareConcurrency, 4)

PooledWorker(b, t) == [busy |-> b, idleTimer |-> t]

Timer(w, t) == [worker |-> w, timer |-> t]

Range(f) == {f[i] : i \in DOMAIN f}

\* the outcome of a request in the worker: success, or an error with its code
Kinds == {"ok", "INCORRECT_PIN", "INVALID_DATA", "UNKNOWN"}

\* postMessage({...message, requestId})
Message(id) == [requestId |-> id]

\* self.onmessage: the response to a message carries the message's requestId,
\* success or the error's code
Response(m, kind) ==
  [requestId |-> m.requestId, success |-> (kind = "ok"),
   code |-> IF kind = "ok" THEN "none" ELSE kind]

\* a request: the worker it was posted to, its outcome in the worker ("none"
\* until the worker has handled it) and whether acquireWorker fell back to a
\* busy worker for it
Request(w, kind, fallback) == [worker |-> w, kind |-> kind, fallback |-> fallback]

NoRequest == Request(0, "none", FALSE)

NoPromise == [state |-> "none", code |-> "none", by |-> 0]

PendingPromise == [state |-> "pending", code |-> "none", by |-> 0]

\* resolve(response) / reject(new CryptoOperationError(code, error)), on the
\* response with requestId `by`
SettledMutUnknown(resp) ==
  [state |-> IF resp.success THEN "resolved" ELSE "rejected",
   code |-> IF resp.success THEN "none" ELSE "UNKNOWN", by |-> resp.requestId]

Settled(resp) ==
  [state |-> IF resp.success THEN "resolved" ELSE "rejected", code |-> resp.code,
   by |-> resp.requestId]

\* reject(new CryptoOperationError(UNKNOWN, ...)) of the error handler
RejectedByErrorEvent == [state |-> "rejected", code |-> "UNKNOWN", by |-> 0]

\* new CryptoWorker(): a worker not created before
NewWorker ==
  CHOOSE w \in Workers \ (Range(workerPool) \cup terminated) :
    \A v \in Workers \ (Range(workerPool) \cup terminated) : w <= v

\* workerPool.find(w => !w.busy): its index, 0 when there is none
FirstIdle ==
  LET idle == {i \in 1..Len(workerPool) : ~pooled[workerPool[i]].busy} IN
  IF idle = {} THEN 0 ELSE CHOOSE i \in idle : \A j \in idle : i <= j

\* acquireWorker(): the worker handed out and the pool afterwards
acquireWorkerMutNoCap ==
  IF FirstIdle # 0
  THEN LET w == workerPool[FirstIdle] IN
       [worker |-> w, workerPool |-> workerPool,
        pooled |-> [pooled EXCEPT ![w] = PooledWorker(TRUE, NoTimer)],
        timers |-> timers \ {Timer(w, pooled[w].idleTimer)}, fallback |-> FALSE]
  ELSE LET w == NewWorker IN
       [worker |-> w, workerPool |-> Append(workerPool, w),
        pooled |-> [pooled EXCEPT ![w] = PooledWorker(TRUE, NoTimer)],
        timers |-> timers, fallback |-> FALSE]

acquireWorker ==
  IF FirstIdle # 0
  THEN LET w == workerPool[FirstIdle] IN
       [worker |-> w, workerPool |-> workerPool,
        pooled |-> [pooled EXCEPT ![w] = PooledWorker(TRUE, NoTimer)],
        timers |-> timers \ {Timer(w, pooled[w].idleTimer)}, fallback |-> FALSE]
  ELSE IF Len(workerPool) < MAX_WORKERS
  THEN LET w == NewWorker IN
       [worker |-> w, workerPool |-> Append(workerPool, w),
        pooled |-> [pooled EXCEPT ![w] = PooledWorker(TRUE, NoTimer)],
        timers |-> timers, fallback |-> FALSE]
  ELSE LET w == workerPool[1] IN
       [worker |-> w, workerPool |-> workerPool,
        pooled |-> [pooled EXCEPT ![w].busy = TRUE],
        timers |-> timers, fallback |-> TRUE]

\* releaseWorker(pooledWorker), k >= 1 times in a row (once by each handler
\* that runs): busy = false, and each call overwrites idleTimer with a new
\* timeout without clearing the one before
releaseWorker(w, k) ==
  [pooled |-> [pooled EXCEPT ![w] = PooledWorker(FALSE, timerCounter + k)],
   timers |-> timers \cup {Timer(w, timerCounter + i) : i \in 1..k},
   timerCounter |-> timerCounter + k]

\* the handler's test of a response: event.data.requestId !== requestId returns
handlerMatchesMutAny(resp, requestId) == TRUE

handlerMatches(resp, requestId) == resp.requestId = requestId

RemoveAt(seq, i) == [j \in 1..(Len(seq) - 1) |-> IF j < i THEN seq[j] ELSE seq[j + 1]]

IndexOf(seq, x) ==
  IF x \in Range(seq) THEN CHOOSE i \in 1..Len(seq) : seq[i] = x ELSE 0

PoolInit ==
  /\ hardwareConcurrency \in HardwareConcurrencies
  /\ workerPool = <<>>
  /\ pooled = [w \in Workers |-> PooledWorker(FALSE, NoTimer)]
  /\ requestIdCounter = 0
  /\ listeners = {}
  /\ inbox = [w \in Workers |-> <<>>]
  /\ outbox = [w \in Workers |-> <<>>]
  /\ terminated = {}
  /\ timers = {}
  /\ timerCounter = 0
  /\ request = [r \in RequestIds |-> NoRequest]
  /\ promise = [r \in RequestIds |-> NoPromise]

\* postToWorker(message): acquire a worker, take the next request id, register
\* the handlers, post the message
PostToWorker ==
  LET a == acquireWorker
      id == requestIdCounter + 1
  IN  /\ requestIdCounter < MaxRequests
      /\ workerPool' = a.workerPool
      /\ pooled' = a.pooled
      /\ timers' = a.timers
      /\ requestIdCounter' = id
      /\ listeners' = listeners \cup {[worker |-> a.worker, requestId |-> id]}
      /\ inbox' = [inbox EXCEPT ![a.worker] = Append(@, Message(id))]
      /\ request' = [request EXCEPT ![id] = Request(a.worker, "none", a.fallback)]
      /\ promise' = [promise EXCEPT ![id] = PendingPromise]
      /\ UNCHANGED <<hardwareConcurrency, outbox, terminated, timerCounter>>
      /\ UNCHANGED <<trackerVars, cipherVars, bridgeVars, contextVars, walletVars>>

\* self.onmessage in worker w: handle the oldest message, which succeeds or
\* fails with one of the codes, and post the response
WorkerOnMessage ==
  \E w \in Workers, kind \in Kinds :
    /\ w \notin terminated
    /\ inbox[w] # <<>>
    /\ inbox' = [inbox EXCEPT ![w] = Tail(@)]
    /\ outbox' = [outbox EXCEPT ![w] = Append(@, Response(Head(inbox[w]), kind))]
    /\ request' = [request EXCEPT ![Head(inbox[w]).requestId].kind = kind]
    /\ UNCHANGED <<hardwareConcurrency, workerPool, pooled, requestIdCounter, listeners,
                   terminated, timers, timerCounter, promise>>
    /\ UNCHANGED <<trackerVars, cipherVars, bridgeVars, contextVars, walletVars>>

\* a 'message' event of worker w: every handler registered on w sees the
\* response; one that matches removes its listeners, releases the worker and
\* settles its promise
DispatchMessage ==
  \E w \in Workers :
    /\ w \notin terminated
    /\ outbox[w] # <<>>
    /\ LET resp == Head(outbox[w])
           hit == {l \in listeners : l.worker = w /\ handlerMatches(resp, l.requestId)}
           rel == releaseWorker(w, Cardinality(hit))
       IN  /\ outbox' = [outbox EXCEPT ![w] = Tail(@)]
           /\ listeners' = listeners \ hit
           /\ promise' = [r \in RequestIds |->
                            IF [worker |-> w, requestId |-> r] \in hit
                            THEN Settled(resp) ELSE promise[r]]
           /\ IF hit = {}
              THEN UNCHANGED <<pooled, timers, timerCounter>>
              ELSE /\ pooled' = rel.pooled
                   /\ timers' = rel.timers
                   /\ timerCounter' = rel.timerCounter
    /\ UNCHANGED <<hardwareConcurrency, workerPool, requestIdCounter, inbox, terminated,
                   request>>
    /\ UNCHANGED <<trackerVars, cipherVars, bridgeVars, contextVars, walletVars>>

\* an 'error' event of worker w (an uncaught error while it handles its oldest
\* message, which gets no response): every error handler registered on w runs,
\* removes its listeners, releases the worker and rejects with UNKNOWN
DispatchError ==
  \E w \in Workers :
    /\ w \notin terminated
    /\ inbox[w] # <<>>
    /\ outbox[w] = <<>>
    /\ LET hit == {l \in listeners : l.worker = w}
           rel == releaseWorker(w, Cardinality(hit))
       IN  /\ inbox' = [inbox EXCEPT ![w] = Tail(@)]
           /\ listeners' = listeners \ hit
           /\ promise' = [r \in RequestIds |->
                            IF [worker |-> w, requestId |-> r] \in hit
                            THEN RejectedByErrorEvent ELSE promise[r]]
           /\ IF hit = {}
              THEN UNCHANGED <<pooled, timers, timerCounter>>
              ELSE /\ pooled' = rel.pooled
                   /\ timers' = rel.timers
                   /\ timerCounter' = rel.timerCounter
    /\ UNCHANGED <<hardwareConcurrency, workerPool, requestIdCounter, outbox, terminated,
                   request>>
    /\ UNCHANGED <<trackerVars, cipherVars, bridgeVars, contextVars, walletVars>>

\* the idle timeout set by releaseWorker fires: the worker is terminated and
\* removed if it is still pooled and not busy
IdleTimeout ==
  \E t \in timers :
    LET w == t.worker
        index == IndexOf(workerPool, w)
    IN  /\ timers' = timers \ {t}
        /\ IF index # 0 /\ ~pooled[w].busy
           THEN /\ terminated' = terminated \cup {w}
                /\ workerPool' = RemoveAt(workerPool, index)
                /\ inbox' = [inbox EXCEPT ![w] = <<>>]
                /\ outbox' = [outbox EXCEPT ![w] = <<>>]
           ELSE UNCHANGED <<terminated, workerPool, inbox, outbox>>
        /\ UNCHANGED <<hardwareConcurrency, pooled, requestIdCounter, listeners,
                       timerCounter, request, promise>>
        /\ UNCHANGED <<trackerVars, cipherVars, bridgeVars, contextVars, walletVars>>

\* terminateCryptoWorker(): clear each pooled worker's idle timer, terminate
\* it, empty the pool
TerminateCryptoWorker ==
  /\ workerPool # <<>>
  /\ timers' = timers \ {Timer(w, pooled[w].idleTimer) : w \in Range(workerPool)}
  /\ terminated' = terminated \cup Range(workerPool)
  /\ inbox' = [w \in Workers |-> IF w \in Range(workerPool) THEN <<>> ELSE inbox[w]]
  /\ outbox' = [w \in Workers |-> IF w \in Range(workerPool) THEN <<>> ELSE outbox[w]]
  /\ workerPool' = <<>>
  /\ UNCHANGED <<hardwareConcurrency, pooled, requestIdCounter, listeners,
                 timerCounter, request, promise>>
  /\ UNCHANGED <<trackerVars, cipherVars, bridgeVars, contextVars, walletVars>>

PoolNext ==
  \/ PostToWorker
  \/ WorkerOnMessage
  \/ DispatchMessage
  \/ DispatchError
  \/ IdleTimeout
  \/ TerminateCryptoWorker

\* the pool, not in use
PoolIdle ==
  /\ hardwareConcurrency = 0
  /\ workerPool = <<>>
  /\ pooled = [w \in Workers |-> PooledWorker(FALSE, NoTimer)]
  /\ requestIdCounter = 0
  /\ listeners = {}
  /\ inbox = [w \in Workers |-> <<>>]
  /\ outbox = [w \in Workers |-> <<>>]
  /\ terminated = {}
  /\ timers = {}
  /\ timerCounter = 0
  /\ request = [r \in RequestIds |-> NoRequest]
  /\ promise = [r \in RequestIds |-> NoPromise]

-----------------------------------------------------------------------------
(* Bridge key exchange: bridgeCrypto.ts (BridgeCryptoService, ML-KEM-1024) *)

IV_LENGTH == 12
HKDF_INFO == "BridgeCrypto-ML-KEM-1024-AES-GCM-Key"
HKDF_SALT == "MyQRLWallet-Bridge-v2"

\* the size of an ML-KEM-1024 ciphertext, the only one completeKeyExchange accepts
CiphertextBytes == 1568

\* the key pairs ml_kem1024.keygen() returns, in order
KeyPairs == 1..MaxKeyPairs

WaiterIds == 1..MaxWaiters

\* sharedSecret: null
NoSecret == [agreed |-> FALSE, secretKey |-> 0]

\* aesKey: null
NoAesKey == [null |-> TRUE, secret |-> NoSecret, salt |-> "", info |-> ""]

DecapsulatorState(k, ss, key, ready, enabled) ==
  [null |-> FALSE, keyPair |-> k, sharedSecret |-> ss, aesKey |-> key,
   isReady |-> ready, encryptionEnabled |-> enabled]

\* state: null
NullState ==
  [null |-> TRUE, keyPair |-> 0, sharedSecret |-> NoSecret, aesKey |-> NoAesKey,
   isReady |-> FALSE, encryptionEnabled |-> FALSE]

\* isReady(): this.state?.isReady ?? false
isReady(st) == IF st.null THEN FALSE ELSE st.isReady

\* shouldEncrypt()
shouldEncrypt(st) == ~st.null /\ st.encryptionEnabled = TRUE /\ st.isReady = TRUE

\* What completeKeyExchange may be given: a string that is or is not base64,
\* the number of bytes it decodes to, and whether the peer made it by
\* encapsulating to the public key of the session's key pair
Ciphertext(b64, n, own) == [base64 |-> b64, length |-> n, encapsulatedToSession |-> own]

Ciphertexts ==
  {Ciphertext(FALSE, 0, FALSE),
   Ciphertext(TRUE, CiphertextBytes - 1, FALSE),
   Ciphertext(TRUE, CiphertextBytes + 1, FALSE),
   Ciphertext(TRUE, CiphertextBytes, FALSE),
   Ciphertext(TRUE, CiphertextBytes, TRUE)}

\* ml_kem1024.decapsulate(ciphertext, secretKey): the secret the peer holds when
\* the ciphertext was encapsulated to this key pair, and otherwise another one
\* (ML-KEM rejects implicitly, without raising)
decapsulate(ct, k) == [agreed |-> ct.encapsulatedToSession, secretKey |-> k]

\* deriveAesKey(sharedSecret): HKDF-SHA256 with the fixed salt and info
deriveAesKey(ss) == [null |-> FALSE, secret |-> ss, salt |-> HKDF_SALT, info |-> HKDF_INFO]

\* the steps of completeKeyExchange that may raise
Faults == {"none", "decapsulate", "deriveAesKey"}

\* generateKeyPair(): the state it assigns, over the k-th key pair
generateKeyPairMutKeepReady(st, k) ==
  IF st.null THEN DecapsulatorState(k, NoSecret, NoAesKey, FALSE, FALSE)
  ELSE [st EXCEPT !.keyPair = k]

generateKeyPair(st, k) == DecapsulatorState(k, NoSecret, NoAesKey, FALSE, FALSE)

\* completeKeyExchange up to await deriveAesKey: why it returns false, or
\* "none" when it reaches the await
completeKeyExchangeBegin(st, ct, fault) ==
  IF st.null THEN "no keypair"
  ELSE IF ~ct.base64 THEN "not base64"
  ELSE IF ct.length # CiphertextBytes THEN "ciphertext size"
  ELSE IF fault = "decapsulate" THEN "decapsulate"
  ELSE "none"

\* a completeKeyExchange suspended at await deriveAesKey
Exchange(ss, key, fault) ==
  [active |-> TRUE, sharedSecret |-> ss, aesKey |-> key, fault |-> fault]

NoExchange == [active |-> FALSE, sharedSecret |-> NoSecret, aesKey |-> NoAesKey,
               fault |-> "none"]

\* completeKeyExchange from await deriveAesKey on: the state afterwards, and
\* why it returns false ("none" when it returns true). The assignment to
\* this.state.sharedSecret raises a TypeError when this.state has become null.
completeKeyExchangeResumeMutAssignFirst(st, ex) ==
  IF st.null THEN [state |-> st, cause |-> "state is null"]
  ELSE IF ex.fault = "deriveAesKey"
  THEN [state |-> [st EXCEPT !.sharedSecret = ex.sharedSecret, !.isReady = TRUE,
                             !.encryptionEnabled = TRUE],
        cause |-> "deriveAesKey"]
  ELSE [state |-> [st EXCEPT !.sharedSecret = ex.sharedSecret, !.aesKey = ex.aesKey,
                             !.isReady = TRUE, !.encryptionEnabled = TRUE],
        cause |-> "none"]

completeKeyExchangeResume(st, ex) ==
  IF ex.fault = "deriveAesKey" THEN [state |-> st, cause |-> "deriveAesKey"]
  ELSE IF st.null THEN [state |-> st, cause |-> "state is null"]
  ELSE [state |-> [st EXCEPT !.sharedSecret = ex.sharedSecret, !.aesKey = ex.aesKey,
                             !.isReady = TRUE, !.encryptionEnabled = TRUE],
        cause |-> "none"]

\* a waitForReady call: its promise, whether its timeout is armed, and whether
\* its callback has been called
Waiter(p, t, c) == [promise |-> p, timeout |-> t, called |-> c]

NoWaiter == Waiter("none", FALSE, FALSE)

\* a callback that clears the timeout and does not resolve
callbackMutNoResolve(wt) == Waiter(wt.promise, FALSE, TRUE)

\* callback(): clearTimeout(timeout); resolve()
callback(wt) ==
  Waiter(IF wt.promise = "pending" THEN "resolved" ELSE wt.promise, FALSE, TRUE)

\* this.onReadyCallbacks.forEach(cb => cb()): the waiters afterwards
notifyMutFirstOnly(ws, cbs) ==
  [w \in WaiterIds |-> IF cbs # <<>> /\ w = cbs[1] THEN callback(ws[w]) ELSE ws[w]]

notify(ws, cbs) ==
  [w \in WaiterIds |-> IF w \in Range(cbs) THEN callback(ws[w]) ELSE ws[w]]

\* the timeout of waiter w: indexOf(callback), splice(index, 1)
removeCallbackMutClear(cbs, w) == <<>>

removeCallback(cbs, w) ==
  IF IndexOf(cbs, w) # 0 THEN RemoveAt(cbs, IndexOf(cbs, w)) ELSE cbs

\* the messages encrypt is given
Plaintexts == {"{\"type\":\"PIN\"}"}

\* crypto.getRandomValues(new Uint8Array(IV_LENGTH)), two of its values
IVs == {<<0, 0, 0, 0, 0, 0, 0, 0, 0, 0, 0, 1>>, <<255, 0, 0, 0, 0, 0, 0, 0, 0, 0, 0, 2>>}

\* {encrypted: base64(iv || AES-GCM(key, iv, plaintext)), isEncrypted: true}
EncryptedEnvelope(iv, key, pt) ==
  [malformed |-> FALSE, iv |-> iv, key |-> key, plaintext |-> pt, isEncrypted |-> TRUE]

\* an envelope whose payload is not base64, is shorter than IV and tag, or was
\* altered
MalformedEnvelope ==
  [malformed |-> TRUE, iv |-> <<>>, key |-> NoAesKey, plaintext |-> "", isEncrypted |-> TRUE]

\* the AES keys a key exchange can derive
AesKeys ==
  {deriveAesKey(decapsulate(ct, k)) :
     ct \in {c \in Ciphertexts : c.length = CiphertextBytes}, k \in KeyPairs}

\* what decrypt may be given: an envelope that is malformed, or one made under
\* one of the keys
Envelopes ==
  {MalformedEnvelope}
    \cup {EncryptedEnvelope(<<0, 0, 0, 0, 0, 0, 0, 0, 0, 0, 0, 1>>, key, pt) :
            key \in AesKeys, pt \in Plaintexts}

\* the result of encrypt / decrypt: null, or a value
Null == [null |-> TRUE, envelope |-> MalformedEnvelope, plaintext |-> ""]

\* encrypt(plaintext); raises: crypto.subtle.encrypt rejects
encryptMutNoReadyCheck(st, pt, iv, raises) ==
  IF st.null THEN Null
  ELSE IF raises THEN Null
  ELSE [null |-> FALSE, envelope |-> EncryptedEnvelope(iv, st.aesKey, pt), plaintext |-> ""]

encrypt(st, pt, iv, raises) ==
  IF ~isReady(st) \/ st.aesKey.null THEN Null
  ELSE IF raises THEN Null
  ELSE [null |-> FALSE, envelope |-> EncryptedEnvelope(iv, st.aesKey, pt), plaintext |-> ""]

\* decrypt(envelope); crypto.subtle.decrypt rejects an envelope made under
\* another key or altered, and base64ToUint8Array raises on one that is not
\* base64
decrypt(st, e) ==
  IF ~isReady(st) \/ st.aesKey.null THEN Null
  ELSE IF e.malformed \/ e.key # st.aesKey THEN Null
  ELSE [null |-> FALSE, envelope |-> MalformedEnvelope, plaintext |-> e.plaintext]

\* the byte buffers reset() overwrites
SecretKeyBytes(k) == [buffer |-> "keyPair.secretKey", keyPair |-> k]

SharedSecretBytes(k) == [buffer |-> "sharedSecret", keyPair |-> k]

\* a reset() that zeroes the secret key and leaves the shared secret
resetZeroesMutSecretKeyOnly(st) ==
  IF st.null THEN {} ELSE {SecretKeyBytes(st.keyPair)}

\* reset(): the buffers it fills with zeros
resetZeroes(st) ==
  IF st.null THEN {}
  ELSE {SecretKeyBytes(st.keyPair)}
         \cup (IF st.sharedSecret # NoSecret THEN {SharedSecretBytes(st.keyPair)} ELSE {})

\* the record of a bridge call
BridgeCall(op, result, cause, w) ==
  [op |-> op, pre |-> state, preCallbacks |-> onReadyCallbacks, preWaiters |-> waiters,
   result |-> result, cause |-> cause, waiter |-> w]

BridgeInit ==
  /\ state = NullState
  /\ onReadyCallbacks = <<>>
  /\ waiters = [w \in WaiterIds |-> NoWaiter]
  /\ waiterCounter = 0
  /\ keygenCounter = 0
  /\ exchange = NoExchange
  /\ publicKeyCall = "none"
  /\ zeroed = {}
  /\ readySince = FALSE
  /\ bres = [op |-> "none", pre |-> NullState, preCallbacks |-> <<>>,
             preWaiters |-> [w \in WaiterIds |-> NoWaiter],
             result |-> "none", cause |-> "none", waiter |-> 0]

\* getPublicKey(): with no state, generateKeyPair() and a suspension at its
\* await; keygen may raise, and then the call rejects
GetPublicKey ==
  \E raises \in BOOLEAN :
    /\ publicKeyCall = "none"
    /\ IF ~state.null
       THEN /\ bres' = BridgeCall("getPublicKey", "publicKey", "none", state.keyPair)
            /\ UNCHANGED <<state, keygenCounter, readySince, publicKeyCall>>
       ELSE /\ keygenCounter < MaxKeyPairs
            /\ IF raises
               THEN /\ bres' = BridgeCall("getPublicKey", "rejects", "keygen", 0)
                    /\ UNCHANGED <<state, keygenCounter, readySince, publicKeyCall>>
               ELSE /\ state' = generateKeyPair(state, keygenCounter + 1)
                    /\ keygenCounter' = keygenCounter + 1
                    /\ readySince' = FALSE
                    /\ publicKeyCall' = "suspended"
                    /\ bres' = BridgeCall("getPublicKey", "suspended", "none", 0)
    /\ UNCHANGED <<onReadyCallbacks, waiters, waiterCounter, exchange, zeroed>>
    /\ UNCHANGED <<trackerVars, cipherVars, poolVars, contextVars, walletVars>>

\* getPublicKey() after await generateKeyPair(): this.state!.keyPair.publicKey
GetPublicKeyResume ==
  /\ publicKeyCall = "suspended"
  /\ publicKeyCall' = "none"
  /\ bres' = IF state.null
             THEN BridgeCall("getPublicKey", "rejects", "state is null", 0)
             ELSE BridgeCall("getPublicKey", "publicKey", "none", state.keyPair)
  /\ UNCHANGED <<state, onReadyCallbacks, waiters, waiterCounter, keygenCounter,
                 exchange, zeroed, readySince>>
  /\ UNCHANGED <<trackerVars, cipherVars, poolVars, contextVars, walletVars>>

\* generateKeyPair()
GenerateKeyPair ==
  \E raises \in BOOLEAN :
    /\ keygenCounter < MaxKeyPairs
    /\ IF raises
       THEN /\ bres' = BridgeCall("generateKeyPair", "rejects", "keygen", 0)
            /\ UNCHANGED <<state, keygenCounter, readySince>>
       ELSE /\ state' = generateKeyPair(state, keygenCounter + 1)
            /\ keygenCounter' = keygenCounter + 1
            /\ readySince' = FALSE
            /\ bres' = BridgeCall("generateKeyPair", "void", "none", 0)
    /\ UNCHANGED <<onReadyCallbacks, waiters, waiterCounter, exchange, publicKeyCall,
                   zeroed>>
    /\ UNCHANGED <<trackerVars, cipherVars, poolVars, contextVars, walletVars>>

\* completeKeyExchange(ciphertextBase64), up to its return false or its await
CompleteKeyExchange ==
  \E ct \in Ciphertexts, fault \in Faults :
    LET cause == completeKeyExchangeBegin(state, ct, fault) IN
    /\ ~exchange.active
    /\ IF cause # "none"
       THEN /\ bres' = BridgeCall("completeKeyExchange", "false", cause, 0)
            /\ UNCHANGED exchange
       ELSE /\ bres' = BridgeCall("completeKeyExchange", "suspended", "none", 0)
            /\ exchange' = Exchange(decapsulate(ct, state.keyPair),
                                    deriveAesKey(decapsulate(ct, state.keyPair)), fault)
    /\ UNCHANGED <<state, onReadyCallbacks, waiters, waiterCounter, keygenCounter,
                   publicKeyCall, zeroed, readySince>>
    /\ UNCHANGED <<trackerVars, cipherVars, poolVars, contextVars, walletVars>>

\* completeKeyExchange after await deriveAesKey: assign the state, call the
\* callbacks and empty their list, return true; or return false from the catch
CompleteKeyExchangeResume ==
  LET r == completeKeyExchangeResume(state, exchange) IN
  /\ exchange.active
  /\ exchange' = NoExchange
  /\ state' = r.state
  /\ IF r.cause = "none"
     THEN /\ waiters' = notify(waiters, onReadyCallbacks)
          /\ onReadyCallbacks' = <<>>
          /\ readySince' = TRUE
          /\ bres' = BridgeCall("completeKeyExchange", "true", "none", 0)
     ELSE /\ bres' = BridgeCall("completeKeyExchange", "false", r.cause, 0)
          /\ UNCHANGED <<waiters, onReadyCallbacks, readySince>>
  /\ UNCHANGED <<waiterCounter, keygenCounter, publicKeyCall, zeroed>>
  /\ UNCHANGED <<trackerVars, cipherVars, poolVars, contextVars, walletVars>>

\* encrypt(plaintext)
BridgeEncrypt ==
  \E pt \in Plaintexts, iv \in IVs, raises \in BOOLEAN :
    LET r == encrypt(state, pt, iv, raises) IN
    /\ bres' = BridgeCall("encrypt", IF r.null THEN "null" ELSE "envelope",
                          IF r.null /\ isReady(state) THEN "raises" ELSE "none", 0)
    /\ UNCHANGED <<state, onReadyCallbacks, waiters, waiterCounter, keygenCounter,
                   exchange, publicKeyCall, zeroed, readySince>>
    /\ UNCHANGED <<trackerVars, cipherVars, poolVars, contextVars, walletVars>>

\* decrypt(envelope)
BridgeDecrypt ==
  \E e \in Envelopes :
    LET r == decrypt(state, e) IN
    /\ bres' = BridgeCall("decrypt", IF r.null THEN "null" ELSE "plaintext",
                          IF r.null /\ isReady(state) THEN "raises" ELSE "none", 0)
    /\ UNCHANGED <<state, onReadyCallbacks, waiters, waiterCounter, keygenCounter,
                   exchange, publicKeyCall, zeroed, readySince>>
    /\ UNCHANGED <<trackerVars, cipherVars, poolVars, contextVars, walletVars>>

\* reset()
Reset ==
  /\ zeroed' = zeroed \cup resetZeroes(state)
  /\ state' = NullState
  /\ onReadyCallbacks' = <<>>
  /\ readySince' = FALSE
  /\ bres' = BridgeCall("reset", "void", "none", 0)
  /\ UNCHANGED <<waiters, waiterCounter, keygenCounter, exchange, publicKeyCall>>
  /\ UNCHANGED <<trackerVars, cipherVars, poolVars, contextVars, walletVars>>

\* waitForReady(timeoutMs)
WaitForReady ==
  LET w == waiterCounter + 1 IN
  /\ waiterCounter < MaxWaiters
  /\ waiterCounter' = w
  /\ IF isReady(state)
     THEN /\ waiters' = [waiters EXCEPT ![w] = Waiter("resolved", FALSE, FALSE)]
          /\ UNCHANGED onReadyCallbacks
          /\ bres' = BridgeCall("waitForReady", "resolved", "none", w)
     ELSE /\ waiters' = [waiters EXCEPT ![w] = Waiter("pending", TRUE, FALSE)]
          /\ onReadyCallbacks' = Append(onReadyCallbacks, w)
          /\ bres' = BridgeCall("waitForReady", "pending", "none", w)
  /\ UNCHANGED <<state, keygenCounter, exchange, publicKeyCall, zeroed, readySince>>
  /\ UNCHANGED <<trackerVars, cipherVars, poolVars, contextVars, walletVars>>

\* the timeout of a waitForReady call fires
WaitTimeout ==
  \E w \in WaiterIds :
    /\ waiters[w].timeout
    /\ onReadyCallbacks' = removeCallback(onReadyCallbacks, w)
    /\ waiters' = [waiters EXCEPT ![w] =
                     Waiter(IF @.promise = "pending" THEN "rejected" ELSE @.promise,
                            FALSE, @.called)]
    /\ bres' = BridgeCall("timeout", "rejected", "Key exchange timeout", w)
    /\ UNCHANGED <<state, waiterCounter, keygenCounter, exchange, publicKeyCall, zeroed,
                   readySince>>
    /\ UNCHANGED <<trackerVars, cipherVars, poolVars, contextVars, walletVars>>

BridgeNext ==
  \/ GetPublicKey
  \/ GetPublicKeyResume
  \/ GenerateKeyPair
  \/ CompleteKeyExchange
  \/ CompleteKeyExchangeResume
  \/ BridgeEncrypt
  \/ BridgeDecrypt
  \/ Reset
  \/ WaitForReady
  \/ WaitTimeout

-----------------------------------------------------------------------------
(* Two browsing contexts of the origin (tabs, or the page and the native   *)
(* web view) that call recordFailedAttempt on the shared localStorage      *)
(* item. Within one context the call runs to completion; localStorage      *)
(* gives no mutual exclusion between contexts, so the getItem of           *)
(* getAttemptData and the setItem of setAttemptData are separate steps.    *)

Contexts == {1, 2}

\* a recordFailedAttempt call after its getAttemptData() and Date.now(): the
\* item and the time it read
Reading(item, t) == [pc |-> "read", item |-> item, time |-> t]

NotCalling == [pc |-> "idle", item |-> NoItem, time |-> 0]

\* no context is calling
ContextsIdle ==
  /\ context = [c \in Contexts |-> NotCalling]
  /\ completed = 0
  /\ stale = FALSE

\* recordFailedAttempt(), up to and including const now = Date.now()
ContextRead ==
  \E c \in Contexts :
    /\ context[c].pc = "idle"
    /\ completed + Cardinality({d \in Contexts : context[d].pc = "read"}) < MaxContextCalls
    /\ context' = [context EXCEPT ![c] = Reading(stored, now)]
    /\ UNCHANGED <<completed, stale>>
    /\ UNCHANGED <<trackerVars, cipherVars, poolVars, bridgeVars, walletVars>>

\* recordFailedAttempt(), from data.failedAttempts += 1 to its return: the
\* item written is computed from the item read
ContextWrite ==
  \E c \in Contexts :
    LET r == recordFailedAttempt(context[c].item, context[c].time) IN
    /\ context[c].pc = "read"
    /\ stored' = r.stored
    /\ context' = [context EXCEPT ![c] = NotCalling]
    /\ completed' = completed + 1
    /\ stale' = (stale \/ context[c].item # stored)
    /\ UNCHANGED <<now, ret, streak>>
    /\ UNCHANGED <<cipherVars, poolVars, bridgeVars, walletVars>>

\* time passes in every context
ContextTick ==
  /\ now < StartMs + MaxContextTicks * StepMs
  /\ now' = now + StepMs
  /\ UNCHANGED <<stored, ret, streak>>
  /\ UNCHANGED <<cipherVars, poolVars, bridgeVars, contextVars, walletVars>>

ContextsNext ==
  \/ ContextRead
  \/ ContextWrite
  \/ ContextTick

-----------------------------------------------------------------------------
(* The call sites that test or change the PIN: Settings onChangePinSubmit, *)
(* AccountCreationForm onSubmit, and the native-app bridge's VERIFY_PIN    *)
(* and CHANGE_PIN handlers. The stored seeds are the list                  *)
(* StorageUtil.getAllEncryptedSeeds returns, updateAllEncryptedSeeds       *)
(* replaces and storeEncryptedSeed extends. Each run of a call site is one *)
(* step, and the runs are short against the lockout: the clock stands      *)
(* still.                                                                  *)

\* the worker the build loads: its current or its earlier revision
WorkerImpls == {"worker", "legacyWorker"}

\* the PINs a form with the /^\d{4,6}$/ schema submits
FormPins == {pin \in Pins : validatePin(pin)}

\* the random draw of an encryption by a call site, and what its decryptions
\* under a wrong key yield
WalletDraws == {[salt |-> <<10, 243>>, iv |-> <<0, 255>>]}

WalletGarbage == {"malformed_utf8"}

\* the seed of the account zondInstance.accounts.create() returns
NewAccountSeed == Seed("zoo wrong", "0xffee")

\* what the store holds before the first run: nothing, or one seed encrypted
\* by an earlier version of the wallet
WalletStored == {<<>>} \cup {<<Stored("pin_v1", 5000, EnvelopeFields).env>>,
                             <<Stored("pin_v2", 100000, EnvelopeFields).env>>}

\* the PIN an encrypted seed was encrypted under
PinOf(e) == e.encryptedData.key.pin

\* all the seeds are encrypted under one PIN
CommonPin(sds) == \A i, j \in DOMAIN sds : PinOf(sds[i]) = PinOf(sds[j])

\* allSeeds.map(seed => reEncrypt(seed.encryptedSeed, oldPin, newPin)): the
\* outcome for each seed (the seeds of one run get the same random draw)
reEncryptEach(impl, sds, oldPin, newPin, g, rnd) ==
  [i \in DOMAIN sds |->
     ReEncrypt(impl, sds[i], oldPin, newPin, g, rnd.salt, rnd.iv)]

\* the list a PIN change stores: the re-encrypted seeds when every
\* re-encryption succeeded (updateAllEncryptedSeeds is reached), the stored
\* ones otherwise (a rejection or a throw skips it)
changePinSeeds(impl, sds, oldPin, newPin, g, rnd) ==
  LET r == reEncryptEach(impl, sds, oldPin, newPin, g, rnd) IN
  IF \A i \in DOMAIN sds : r[i].ok
  THEN [i \in DOMAIN sds |-> r[i].out]
  ELSE sds

\* every re-encryption of the PIN change succeeds
changePinSucceeds(impl, sds, oldPin, newPin, g, rnd) ==
  \A i \in DOMAIN sds : reEncryptEach(impl, sds, oldPin, newPin, g, rnd)[i].ok

\* the record of a run of a call site: what it was given, whether it called
\* checkLockout first, whether it dispatched a decryption of a stored seed
\* under the given PIN, whether the tracker was locked when it ran, the seeds
\* stored before it, and its outcome
Flow(op, pin, newPin, checked, dispatched, outcome) ==
  [worker |-> flow.worker, op |-> op, pin |-> pin, newPin |-> newPin,
   checked |-> checked, dispatched |-> dispatched,
   locked |-> checkLockout(stored, now).isLocked,
   pre |-> seeds, outcome |-> outcome]

NoFlow(impl) ==
  [worker |-> impl, op |-> "none", pin |-> <<>>, newPin |-> <<>>,
   checked |-> FALSE, dispatched |-> FALSE, locked |-> FALSE,
   pre |-> <<>>, outcome |-> "none"]

\* AccountCreationForm before its effect has run (hasExistingSeeds null, the
\* form is not rendered), and after
NotMounted == [hasExistingSeeds |-> "null", existingSeeds |-> <<>>]

Mounted(sds) ==
  [hasExistingSeeds |-> IF Len(sds) > 0 THEN "true" ELSE "false", existingSeeds |-> sds]

WalletInit ==
  /\ seeds \in WalletStored
  /\ form = NotMounted
  /\ \E impl \in WorkerImpls : flow = NoFlow(impl)

\* Settings, onChangePinSubmit(data). Settings is another route of the page
\* than the account creation: its form is not mounted while Settings runs
SettingsChangePin ==
  \E currentPin \in FormPins, newPin \in FormPins, g \in WalletGarbage,
     rnd \in WalletDraws :
    LET lockoutStatus == checkLockout(stored, now)
        verified == Decrypt(flow.worker, seeds[1], currentPin, g)
        failed == recordFailedAttempt(lockoutStatus.stored, now)
    IN  /\ newPin # currentPin
        /\ IF lockoutStatus.isLocked
           THEN /\ flow' = Flow("onChangePinSubmit", currentPin, newPin, TRUE, FALSE,
                                "locked")
                /\ UNCHANGED <<stored, seeds>>
           ELSE IF seeds = <<>>
           THEN /\ flow' = Flow("onChangePinSubmit", currentPin, newPin, TRUE, FALSE,
                                "no seeds")
                /\ stored' = lockoutStatus.stored
                /\ UNCHANGED seeds
           ELSE IF ~verified.ok
           THEN /\ flow' = Flow("onChangePinSubmit", currentPin, newPin, TRUE, TRUE,
                                "incorrect PIN")
                /\ stored' = failed.stored
                /\ UNCHANGED seeds
           ELSE IF ~changePinSucceeds(flow.worker, seeds, currentPin, newPin, g, rnd)
           THEN /\ flow' = Flow("onChangePinSubmit", currentPin, newPin, TRUE, TRUE,
                                "error")
                /\ stored' = lockoutStatus.stored
                /\ seeds' = changePinSeeds(flow.worker, seeds, currentPin, newPin, g, rnd)
           ELSE /\ flow' = Flow("onChangePinSubmit", currentPin, newPin, TRUE, TRUE,
                                "changed")
                /\ stored' = recordSuccessfulAttempt(lockoutStatus.stored)
                /\ seeds' = changePinSeeds(flow.worker, seeds, currentPin, newPin, g, rnd)
        /\ form' = NotMounted
        /\ UNCHANGED <<now, ret, streak>>
        /\ UNCHANGED <<cipherVars, poolVars, bridgeVars, contextVars>>

\* AccountCreationForm, the effect that runs on mount: checkExistingSeeds
CheckExistingSeeds ==
  /\ form' = Mounted(seeds)
  /\ flow' = Flow("checkExistingSeeds", <<>>, <<>>, FALSE, FALSE, "none")
  /\ UNCHANGED seeds
  /\ UNCHANGED <<trackerVars, cipherVars, poolVars, bridgeVars, contextVars>>

\* AccountCreationForm, InnerForm.onSubmit(formData); once the account is
\* created the parent shows the mnemonic in place of the form
AccountCreationSubmit ==
  \E userPin \in FormPins, g \in WalletGarbage, rnd \in WalletDraws :
    LET existingSeeds == form.existingSeeds
        verified == Decrypt(flow.worker, existingSeeds[1], userPin, g)
        encryptedSeed == Encrypt(flow.worker, NewAccountSeed, userPin, rnd.salt, rnd.iv)
    IN  /\ form.hasExistingSeeds # "null"
        /\ IF form.hasExistingSeeds = "true" /\ Len(existingSeeds) > 0 /\ ~verified.ok
           THEN /\ flow' = Flow("onSubmit", userPin, <<>>, FALSE, TRUE, "incorrect PIN")
                /\ UNCHANGED <<seeds, form>>
           ELSE /\ Len(seeds) < MaxSeeds
                /\ flow' = Flow("onSubmit", userPin, <<>>, FALSE,
                                form.hasExistingSeeds = "true", "stored")
                /\ seeds' = Append(seeds, encryptedSeed.out)
                /\ form' = NotMounted
        /\ UNCHANGED <<trackerVars, cipherVars, poolVars, bridgeVars, contextVars>>

\* the native-app bridge, case 'VERIFY_PIN'
NativeVerifyPin ==
  \E pin \in Pins, activeAccount \in 0..MaxSeeds, g \in WalletGarbage :
    /\ activeAccount <= Len(seeds)
    /\ seeds # <<>> => activeAccount # 0
    /\ IF activeAccount = 0
       THEN flow' = Flow("VERIFY_PIN", pin, <<>>, FALSE, FALSE, "no active account")
       ELSE flow' = Flow("VERIFY_PIN", pin, <<>>, FALSE, TRUE,
                         IF decryptSeedWithPin(seeds[activeAccount], pin, g).ok
                         THEN "verified" ELSE "incorrect PIN")
    /\ UNCHANGED <<seeds, form>>
    /\ UNCHANGED <<trackerVars, cipherVars, poolVars, bridgeVars, contextVars>>

\* the native-app bridge, case 'CHANGE_PIN' and handleChangePinRequest
NativeChangePin ==
  \E oldPin \in Pins, newPin \in Pins, g \in WalletGarbage,
     rnd \in WalletDraws :
    /\ IF ~validatePin(oldPin)
       THEN /\ flow' = Flow("CHANGE_PIN", oldPin, newPin, FALSE, FALSE, "invalid old PIN")
            /\ UNCHANGED seeds
       ELSE IF ~validatePin(newPin)
       THEN /\ flow' = Flow("CHANGE_PIN", oldPin, newPin, FALSE, FALSE, "invalid new PIN")
            /\ UNCHANGED seeds
       ELSE IF seeds = <<>>
       THEN /\ flow' = Flow("CHANGE_PIN", oldPin, newPin, FALSE, FALSE, "no seeds")
            /\ UNCHANGED seeds
       ELSE /\ flow' = Flow("CHANGE_PIN", oldPin, newPin, FALSE, TRUE,
                            IF changePinSucceeds("sync", seeds, oldPin, newPin, g, rnd)
                            THEN "changed"
                            ELSE IF \E i \in DOMAIN seeds :
                                      reEncryptEach("sync", seeds, oldPin, newPin, g,
                                                    rnd)[i].code = "PinDecryptionError"
                            THEN "incorrect PIN" ELSE "error")
            /\ seeds' = changePinSeeds("sync", seeds, oldPin, newPin, g, rnd)
    /\ UNCHANGED form
    /\ UNCHANGED <<trackerVars, cipherVars, poolVars, bridgeVars, contextVars>>

WalletNext ==
  \/ SettingsChangePin
  \/ CheckExistingSeeds
  \/ AccountCreationSubmit
  \/ NativeVerifyPin
  \/ NativeChangePin

\* no call site has run
WalletIdle ==
  /\ seeds = <<>>
  /\ form = [hasExistingSeeds |-> "null", existingSeeds |-> <<>>]
  /\ flow = NoFlow("worker")

-----------------------------------------------------------------------------
(* Specifications                                                          *)

InitTracker == TrackerInit /\ CipherIdle /\ PoolIdle /\ BridgeInit
  /\ ContextsIdle /\ WalletIdle

SpecTracker == InitTracker /\ [][TrackerNext]_vars

InitCipher == CipherInit /\ TrackerInit /\ PoolIdle /\ BridgeInit
  /\ ContextsIdle /\ WalletIdle

SpecCipher == InitCipher /\ [][CipherNext]_vars

InitPool == PoolInit /\ TrackerInit /\ CipherIdle /\ BridgeInit
  /\ ContextsIdle /\ WalletIdle

SpecPool == InitPool /\ [][PoolNext]_vars

InitBridge == BridgeInit /\ TrackerInit /\ CipherIdle /\ PoolIdle
  /\ ContextsIdle /\ WalletIdle

SpecBridge == InitBridge /\ [][BridgeNext]_vars

InitContexts == ContextsIdle /\ TrackerInit /\ CipherIdle /\ PoolIdle /\ BridgeInit
  /\ WalletIdle

SpecContexts == InitContexts /\ [][ContextsNext]_vars

InitWallet == WalletInit /\ TrackerInit /\ CipherIdle /\ PoolIdle /\ BridgeInit
  /\ ContextsIdle

SpecWallet == InitWallet /\ [][WalletNext]_vars

\* The pool when every worker answers each message it receives (no 'error'
\* event) and terminateCryptoWorker is not called. Workers run and the event
\* loop delivers their responses and the timeouts that are due.
PoolNextAnswering ==
  \/ PostToWorker
  \/ WorkerOnMessage
  \/ DispatchMessage
  \/ IdleTimeout

SpecPoolAnswering ==
  /\ InitPool
  /\ [][PoolNextAnswering]_vars
  /\ WF_vars(WorkerOnMessage)
  /\ WF_vars(DispatchMessage)
  /\ WF_vars(IdleTimeout)

\* The bridge when the event loop runs the timeouts that are due: a timer set
\* by waitForReady and not cleared fires. Its steps are the calls that act on
\* the session, the callbacks or the promises: encrypt and decrypt read the
\* session only, and getPublicKey acts through generateKeyPair.
BridgeNextWaiting ==
  \/ GenerateKeyPair
  \/ CompleteKeyExchange
  \/ CompleteKeyExchangeResume
  \/ Reset
  \/ WaitForReady
  \/ WaitTimeout

SpecBridgeFair == InitBridge /\ [][BridgeNextWaiting]_vars /\ WF_vars(WaitTimeout)

-----------------------------------------------------------------------------
(* Attempt tracker: properties                                             *)

\* the stored data after the last call (no call changes it but a tracker call)
StoredData == getAttemptData(stored)

\* the last call found a lockout that had not expired
WasLocked == ret.pre.lockoutUntil # NullTime /\ ret.time < ret.pre.lockoutUntil

\* the last call found a lockout that had expired
WasExpired == ret.pre.lockoutUntil # NullTime /\ ret.time >= ret.pre.lockoutUntil

\* C2: from an empty tracker the k-th consecutive recordFailedAttempt returns
\* isLocked=false, attemptsLeft=5-k for k=1..4; the 5th returns isLocked=true,
\* attemptsLeft=0 and stores lockoutUntil = time of the call + 15 minutes; a
\* checkLockout before lockoutUntil returns isLocked=true, remainingMs = lockoutUntil - now.
C2_LockoutArithmetic ==
  /\ (ret.op = "recordFailedAttempt" /\ streak \in 1..4)
       => /\ ~ret.isLocked
          /\ ret.attemptsLeft = 5 - streak
          /\ StoredData.lockoutUntil = NullTime
  /\ (ret.op = "recordFailedAttempt" /\ streak = 5)
       => /\ ret.isLocked
          /\ ret.attemptsLeft = 0
          /\ StoredData.lockoutUntil = ret.time + 15 * 60 * 1000
  /\ (ret.op = "checkLockout" /\ streak = 5 /\ ret.time < ret.pre.lockoutUntil)
       => /\ ret.isLocked
          /\ ret.remainingMs = ret.pre.lockoutUntil - ret.time

\* C2 witness: a checkLockout some time after the 5th failure, still locked
C2_Witness ==
  /\ ret.op = "checkLockout"
  /\ streak = 5
  /\ ret.isLocked
  /\ ret.time > ret.pre.lastAttemptTime
  /\ ret.remainingMs = 5 * 60 * 1000

\* C3 (as stated): while a lockout is active, a further recordFailedAttempt
\* leaves lockoutUntil unchanged.
C3_Original ==
  (ret.op = "recordFailedAttempt" /\ WasLocked)
    => StoredData.lockoutUntil = ret.pre.lockoutUntil

\* C3 (amended): while a lockout is active, a further recordFailedAttempt sets
\* lockoutUntil to the time of that call plus 15 minutes: the window restarts,
\* it never shrinks, and it is unchanged only when no time has passed since
\* the lockout was set.
C3_LockoutRestarts ==
  (ret.op = "recordFailedAttempt" /\ WasLocked)
    => /\ StoredData.lockoutUntil = ret.time + 15 * 60 * 1000
       /\ StoredData.lockoutUntil >= ret.pre.lockoutUntil
       /\ (StoredData.lockoutUntil = ret.pre.lockoutUntil
             <=> ret.time = ret.pre.lastAttemptTime)
       /\ ret.isLocked

\* C3 witness: a failed attempt during a lockout, later than the one that set it
C3_Witness ==
  /\ ret.op = "recordFailedAttempt"
  /\ WasLocked
  /\ ret.pre.failedAttempts >= 5
  /\ StoredData.lockoutUntil > ret.pre.lockoutUntil

\* C4 (as stated): no operation but checkLockout observing an expired lockout
\* takes the tracker from locked to unlocked; in particular no operation clears
\* a lockout whose expiry time has not passed.
C4_Original ==
  (ret.op # "none" /\ WasLocked) => StoredData.lockoutUntil # NullTime

\* C4 (amended): recordFailedAttempt, getRemainingAttempts, hasFailedAttempts
\* and checkLockout never clear a lockout whose expiry time has not passed, and
\* checkLockout clears only an expired one; recordSuccessfulAttempt and
\* clearAttemptTracker reset the tracker unconditionally, also while locked.
C4_UnlockTransitions ==
  /\ (ret.op \in {"recordFailedAttempt", "getRemainingAttempts", "hasFailedAttempts",
                  "checkLockout"} /\ WasLocked)
       => StoredData.lockoutUntil # NullTime
  /\ (ret.op \in {"recordFailedAttempt", "getRemainingAttempts", "hasFailedAttempts"}
        /\ ret.pre.lockoutUntil # NullTime)
       => StoredData.lockoutUntil # NullTime
  /\ ret.op \in {"recordSuccessfulAttempt", "clearAttemptTracker"}
       => StoredData = DefaultAttemptData

\* C4 witness: checkLockout has cleared an expired lockout
C4_Witness ==
  /\ ret.op = "checkLockout"
  /\ WasExpired
  /\ StoredData.lockoutUntil = NullTime

\* C5: checkLockout on a stored lockoutUntil that is not in the future returns
\* isLocked=false, remainingMs=0 and leaves failedAttempts=0, lockoutUntil=null;
\* checkLockout with no lockoutUntil stored changes nothing.
C5_ExpiryReset ==
  /\ (ret.op = "checkLockout" /\ WasExpired)
       => /\ ~ret.isLocked
          /\ ret.remainingMs = 0
          /\ stored.present
          /\ stored.data.failedAttempts = 0
          /\ stored.data.lockoutUntil = NullTime
  /\ (ret.op = "checkLockout" /\ ret.pre.lockoutUntil = NullTime)
       => /\ ~ret.isLocked
          /\ ret.remainingMs = 0
          /\ stored = [present |-> ret.wasPresent, data |-> ret.pre]

\* C5 witness: a checkLockout at or after the expiry of a lockout
C5_Witness ==
  /\ ret.op = "checkLockout"
  /\ WasExpired
  /\ ret.pre.failedAttempts >= 5

-----------------------------------------------------------------------------
(* Seed cipher: properties                                                 *)

\* the version tag an envelope carries
VersionOf(e) == IF "version" \in e.has THEN e.version ELSE "undefined"

\* the iteration count each version tag stands for
VersionIterations(v) ==
  IF v = "pin_v3" THEN 600000 ELSE IF v = "pin_v2" THEN 100000 ELSE 5000

\* the last call was given an envelope that some encryption produced
OnRealEnvelope == WellFormed(cres.env) /\ cres.origin.by # "malformed"

\* C6: decrypt derives the key with the iteration count of the envelope's
\* version (pin_v1 5,000; pin_v2 100,000; pin_v3 600,000; none or unknown
\* 5,000), so a pin_v1 envelope made with 5,000 iterations decrypts to its
\* original (mnemonic, hexSeed) under the matching PIN.
C6_VersionSelectsIterations ==
  (cres.op = "decrypt" /\ OnRealEnvelope)
    => /\ cres.iterations = VersionIterations(VersionOf(cres.env))
       /\ (/\ VersionOf(cres.env) = "pin_v1"
           /\ cres.origin.iterations = 5000
           /\ cres.pin = cres.origin.pin)
            => (cres.ok /\ cres.value = cres.origin.seed)

\* C7: reEncrypt of a pin_v1 envelope (5,000 iterations) with the correct old
\* PIN succeeds and returns a pin_v3 envelope under 600,000 iterations that
\* decrypts under the new PIN to the same seed; every reEncrypt output is pin_v3.
C7_ReEncryptUpgrades ==
  /\ (/\ cres.op = "reEncrypt"
      /\ OnRealEnvelope
      /\ VersionOf(cres.env) = "pin_v1"
      /\ cres.origin.iterations = 5000
      /\ cres.pin = cres.origin.pin
      /\ validatePin(cres.newPin))
       => /\ cres.ok
          /\ cres.out.version = "pin_v3"
          /\ cres.out.encryptedData.key.iterations = 600000
          /\ \A g \in Garbage :
               LET d == Decrypt(cres.impl, cres.out, cres.newPin, g) IN
               d.ok /\ d.value = cres.origin.seed
  /\ (cres.op = "reEncrypt" /\ cres.ok) => cres.out.version = "pin_v3"

\* C8: decrypting the envelope that encrypt returned, with the same PIN of 4 to
\* 6 digits, returns exactly the (mnemonic, hexSeed) given to encrypt; decrypt
\* uses the iteration count encrypt used and reads salt and iv back as written.
C8_RoundTrip ==
  (/\ cres.op = "decrypt"
   /\ cres.origin.by = "encrypt"
   /\ validatePin(cres.pin)
   /\ cres.pin = cres.origin.pin)
    => /\ cres.ok
       /\ cres.value = cres.origin.seed
       /\ cres.iterations = cres.origin.iterations
       /\ HexParse(cres.env.salt) = cres.origin.salt
       /\ HexParse(cres.env.iv) = cres.origin.iv

\* C8 witness: the current worker has decrypted an envelope that encrypt made
C8_Witness ==
  /\ cres.op = "decrypt"
  /\ cres.impl = "worker"
  /\ cres.origin.by = "encrypt"
  /\ cres.pin = Pin123456
  /\ cres.pin = cres.origin.pin
  /\ cres.ok
  /\ cres.value = Seed("zoo wrong", "0xffee")

\* C9: the worker reports the decryption of a well-formed envelope under a PIN
\* other than its own as INCORRECT_PIN, whether the decrypted bytes fail UTF-8
\* decoding, are empty, or are UTF-8 that is not JSON; never as INVALID_DATA or
\* UNKNOWN.
C9_WrongPinIsIncorrectPin ==
  (/\ cres.op = "decrypt"
   /\ cres.impl = "worker"
   /\ OnRealEnvelope
   /\ cres.pin # cres.origin.pin)
    => /\ ~cres.ok
       /\ cres.code = "INCORRECT_PIN"
       /\ cres.garbage \in Garbage

\* C9 witness: a wrong PIN whose decrypted bytes are not valid UTF-8
C9_Witness ==
  /\ cres.op = "decrypt"
  /\ cres.impl = "worker"
  /\ cres.origin.by = "encrypt"
  /\ validatePin(cres.pin)
  /\ validatePin(cres.origin.pin)
  /\ cres.pin # cres.origin.pin
  /\ cres.garbage = "malformed_utf8"
  /\ cres.code = "INCORRECT_PIN"

\* C10: decrypt of a string that is not JSON, or is JSON but no object with
\* salt, iv and encryptedData, fails with INVALID_DATA, never with a wrong-PIN
\* error (INCORRECT_PIN, PinDecryptionError) nor UNKNOWN.
C10_MalformedIsInvalidData ==
  (/\ cres.op = "decrypt"
   /\ cres.impl \in {"worker", "sync"}
   /\ ~WellFormed(cres.env))
    => /\ ~cres.ok
       /\ cres.code = "INVALID_DATA"

\* C11: encrypt with a PIN that is not 4 to 6 digits fails with the invalid-PIN
\* error before any key derivation and returns no envelope, whichever
\* implementation is called; a reEncrypt whose new PIN is not 4 to 6 digits
\* never returns an envelope.
C11_InvalidPinRejected ==
  /\ (cres.op = "encrypt" /\ ~validatePin(cres.pin))
       => /\ ~cres.ok
          /\ cres.code = "Invalid PIN format"
          /\ cres.iterations = 0
          /\ cres.out = NotJsonEnvelope
  /\ (cres.op = "reEncrypt" /\ ~validatePin(cres.newPin)) => ~cres.ok

-----------------------------------------------------------------------------
(* Worker pool client: properties                                          *)

\* C1: a promise of postToWorker is settled by a worker message only if the
\* message's requestId is the id the request was sent with, and then with the
\* response to its own request; so two requests in flight on one worker each
\* receive their own response.
C1_OwnResponseOnly ==
  \A r \in RequestIds :
    (promise[r].state \in {"resolved", "rejected"} /\ promise[r].by # 0)
      => /\ promise[r].by = r
         /\ promise[r].code = Response(Message(r), request[r].kind).code
         /\ (promise[r].state = "resolved") = (request[r].kind = "ok")

\* C1 witness: a request posted to a busy worker (the pool was saturated) and
\* the request it queued behind have both been settled by worker messages, with
\* different results
C1_Witness ==
  \E r, q \in RequestIds :
    /\ q < r
    /\ request[r].fallback
    /\ request[q].worker = request[r].worker
    /\ request[q].kind # request[r].kind
    /\ promise[q].by = q
    /\ promise[r].by = r
    /\ promise[r].state = "rejected"
    /\ promise[q].state = "resolved"

\* C12: under every interleaving of requests, responses, error events, idle
\* timeouts and terminateCryptoWorker the pool holds at most MAX_WORKERS
\* workers, each of them once and none of them terminated, and MAX_WORKERS is
\* at most 4.
C12_PoolBounded ==
  /\ Len(workerPool) <= MAX_WORKERS
  /\ Cardinality(Range(workerPool)) = Len(workerPool)
  /\ Range(workerPool) \cap terminated = {}
  /\ MAX_WORKERS <= 4
  /\ MAX_WORKERS >= 1

\* C12 witness: the pool is full, every worker in it is busy, and a request
\* that arrived in that situation was given a pooled worker instead of a new one
C12_Witness ==
  /\ Len(workerPool) = MAX_WORKERS
  /\ MAX_WORKERS = 2
  /\ \A i \in 1..Len(workerPool) : pooled[workerPool[i]].busy
  /\ \E r \in RequestIds : request[r].fallback /\ promise[r].state = "pending"

\* C13: a request that arrives while the pool holds MAX_WORKERS workers, all
\* busy, is posted to the first pooled worker behind what that worker has still
\* to do, and, when workers answer every message in order and
\* terminateCryptoWorker is not called, its promise is eventually settled by the
\* response to its own message.
C13_FallbackSettles ==
  \A r \in RequestIds :
    (request[r].fallback /\ promise[r].state = "pending") ~> (promise[r].by = r)

\* the message of request r has left its worker: it is neither waiting in the
\* worker nor is its response waiting for dispatch, and the worker is alive
Handled(r) ==
  /\ promise[r].state # "none"
  /\ request[r].worker \notin terminated
  /\ \A i \in 1..Len(inbox[request[r].worker]) :
       inbox[request[r].worker][i].requestId # r
  /\ \A i \in 1..Len(outbox[request[r].worker]) :
       outbox[request[r].worker][i].requestId # r

-----------------------------------------------------------------------------
(* Bridge key exchange: properties                                         *)

\* the last bridge call was a completeKeyExchange that returned true
ExchangeSucceeded == bres.op = "completeKeyExchange" /\ bres.result = "true"

\* C15: shouldEncrypt() is true exactly when a completeKeyExchange has returned
\* true since the last generateKeyPair or reset; when it is true aesKey and
\* sharedSecret are set; isReady and encryptionEnabled are equal in every state.
C15_ReadyExactly ==
  /\ shouldEncrypt(state) = readySince
  /\ shouldEncrypt(state) => (~state.aesKey.null /\ state.sharedSecret # NoSecret)
  /\ state.isReady = state.encryptionEnabled
  /\ isReady(state) = shouldEncrypt(state)

\* C15 witness: the second session (a generateKeyPair replaced the first) has
\* become ready
C15_Witness ==
  /\ ExchangeSucceeded
  /\ state.keyPair = 2
  /\ shouldEncrypt(state)
  /\ ~bres.pre.isReady

\* C16: a completeKeyExchange that fails returns false, for one of the causes
\* no session, not base64, wrong ciphertext size, decapsulation raised, key
\* derivation raised (or the session was dropped meanwhile), and changes
\* nothing: the session, the callback list and the waiters are as before.
C16_FailedExchangeChangesNothing ==
  /\ (bres.op = "completeKeyExchange" /\ bres.result # "true" /\ bres.result # "suspended")
       => /\ bres.result = "false"
          /\ bres.cause \in {"no keypair", "not base64", "ciphertext size", "decapsulate",
                             "deriveAesKey", "state is null"}
          /\ state = bres.pre
          /\ onReadyCallbacks = bres.preCallbacks
          /\ waiters = bres.preWaiters
  /\ (bres.op = "completeKeyExchange" /\ bres.result = "suspended")
       => /\ bres.pre.keyPair # 0
          /\ state = bres.pre
          /\ onReadyCallbacks = bres.preCallbacks
          /\ waiters = bres.preWaiters

\* C16 witness: key derivation raised while two waiters were registered
C16_Witness ==
  /\ bres.op = "completeKeyExchange"
  /\ bres.result = "false"
  /\ bres.cause = "deriveAesKey"
  /\ Len(onReadyCallbacks) = 2
  /\ \A i \in 1..2 : waiters[onReadyCallbacks[i]] = Waiter("pending", TRUE, FALSE)

\* C17 as stated: a successful completeKeyExchange resolves every waitForReady
\* promise that was pending
C17_Original ==
  ExchangeSucceeded
    => /\ onReadyCallbacks = <<>>
       /\ \A w \in WaiterIds :
            bres.preWaiters[w].promise = "pending" => waiters[w].promise = "resolved"

\* C17: a successful completeKeyExchange resolves every pending waitForReady
\* promise whose callback is in the list, clears its timeout and empties the
\* list; a pending promise whose callback reset() dropped is left as it was;
\* waitForReady on a ready session resolves at once and registers nothing.
C17_SuccessResolvesRegistered ==
  /\ ExchangeSucceeded
       => /\ onReadyCallbacks = <<>>
          /\ \A w \in WaiterIds :
               IF w \in Range(bres.preCallbacks)
               THEN /\ bres.preWaiters[w].promise = "pending"
                    /\ waiters[w] = Waiter("resolved", FALSE, TRUE)
               ELSE waiters[w] = bres.preWaiters[w]
  /\ (bres.op = "waitForReady" /\ isReady(bres.pre))
       => /\ bres.result = "resolved"
          /\ waiters[bres.waiter] = Waiter("resolved", FALSE, FALSE)
          /\ onReadyCallbacks = bres.preCallbacks
  /\ (bres.op = "waitForReady" /\ ~isReady(bres.pre))
       => /\ bres.result = "pending"
          /\ onReadyCallbacks = Append(bres.preCallbacks, bres.waiter)

\* C17 witness: a key exchange has resolved the registered waiter and left
\* pending one whose callback a reset had dropped
C17_Witness ==
  /\ ExchangeSucceeded
  /\ Len(bres.preCallbacks) = 1
  /\ waiters[bres.preCallbacks[1]] = Waiter("resolved", FALSE, TRUE)
  /\ \E w \in WaiterIds : waiters[w] = Waiter("pending", TRUE, FALSE)

\* C18: the timeout of a waitForReady call rejects its promise and removes its
\* own callback only; the other waiters are untouched, and those registered are
\* resolved by the next successful completeKeyExchange; the callback of a
\* rejected promise is never called.
C18_TimeoutRemovesOwnCallback ==
  /\ bres.op = "timeout"
       => /\ bres.result = "rejected"
          /\ waiters[bres.waiter].promise = "rejected"
          /\ onReadyCallbacks = SelectSeq(bres.preCallbacks, LAMBDA x : x # bres.waiter)
          /\ \A v \in WaiterIds \ {bres.waiter} : waiters[v] = bres.preWaiters[v]
  /\ \A w \in WaiterIds :
       waiters[w].promise = "rejected"
         => (~waiters[w].called /\ w \notin Range(onReadyCallbacks))
  /\ ExchangeSucceeded
       => \A w \in Range(bres.preCallbacks) : waiters[w].promise = "resolved"

\* C18 witness: of two waiters registered together the later one timed out, and
\* a key exchange has then resolved the earlier one
C18_Witness ==
  /\ ExchangeSucceeded
  /\ \E v, w \in WaiterIds :
       /\ v < w
       /\ v \in Range(bres.preCallbacks)
       /\ bres.preWaiters[w].promise = "rejected"
       /\ waiters[w] = Waiter("rejected", FALSE, FALSE)
       /\ waiters[v] = Waiter("resolved", FALSE, TRUE)

\* C19: encrypt and decrypt on a session that is not ready (none, not yet
\* exchanged, reset, or replaced by generateKeyPair) return null and change
\* nothing; generateKeyPair leaves the session without an AES key.
C19_NotReadyReturnsNull ==
  /\ (bres.op \in {"encrypt", "decrypt"} /\ ~isReady(bres.pre))
       => /\ bres.result = "null"
          /\ state = bres.pre
          /\ onReadyCallbacks = bres.preCallbacks
          /\ waiters = bres.preWaiters
  /\ (bres.op = "generateKeyPair" /\ bres.result = "void")
       => (state.aesKey.null /\ ~isReady(state))
  /\ bres.op = "reset" => state.null

\* C19 witness: encrypt returned null on the second session, which replaced a
\* first one that had been ready (its waiter's callback was called) with no
\* reset in between
C19_Witness ==
  /\ bres.op = "encrypt"
  /\ bres.result = "null"
  /\ bres.pre.keyPair = 2
  /\ ~bres.pre.isReady
  /\ zeroed = {}
  /\ \E w \in WaiterIds : waiters[w].called

\* C20: when the underlying step of a bridge operation raises (key generation,
\* decapsulation, key derivation, encryption, decryption) the operation neither
\* throws nor rejects: it returns false or null.
C20_FailuresAreSentinels ==
  bres.cause \in {"keygen", "decapsulate", "deriveAesKey", "raises"}
    => bres.result \in {"false", "null"}

-----------------------------------------------------------------------------
(* Attempt tracker: further properties                                     *)

\* C29: in every state reached by sequential tracker calls, the stored
\* lockoutUntil is non-null if and only if the stored failedAttempts is at
\* least 5.
C29_LockoutIffThreshold ==
  StoredData.lockoutUntil # NullTime <=> StoredData.failedAttempts >= 5

\* C29 witness: a 6th failure recorded after the lockout it extends has expired
C29_Witness ==
  /\ ret.op = "recordFailedAttempt"
  /\ WasExpired
  /\ StoredData.failedAttempts = 6
  /\ StoredData.lockoutUntil # NullTime

\* C30: once a lockout has expired, the next recordFailedAttempt starts a new
\* count and returns isLocked=false with attemptsLeft=4, whether checkLockout
\* has run since the expiry (it then finds the counters reset) or not (it then
\* finds the expired lockout still stored).
C30_ExpiredLockoutStartsNewCount ==
  (ret.op = "recordFailedAttempt"
     /\ (WasExpired \/ (ret.pre.failedAttempts = 0 /\ ret.pre.lockoutUntil = NullTime)))
    => /\ ~ret.isLocked
       /\ ret.attemptsLeft = 4

-----------------------------------------------------------------------------
(* Bridge key exchange: further properties                                 *)

\* C21: reset() fills the session's KEM secret key bytes and, when there is
\* one, its shared secret bytes with zeros and drops the session: after reset
\* there is no session (isReady and shouldEncrypt are false) and the list of
\* ready-callbacks is empty.
C21_ResetZeroesAndDrops ==
  bres.op = "reset"
    => /\ state.null
       /\ ~isReady(state)
       /\ ~shouldEncrypt(state)
       /\ onReadyCallbacks = <<>>
       /\ ~bres.pre.null => SecretKeyBytes(bres.pre.keyPair) \in zeroed
       /\ (~bres.pre.null /\ bres.pre.sharedSecret # NoSecret)
            => SharedSecretBytes(bres.pre.keyPair) \in zeroed

\* C21 witness: reset() of a ready session, which holds a shared secret
C21_Witness ==
  /\ bres.op = "reset"
  /\ isReady(bres.pre)
  /\ bres.pre.sharedSecret # NoSecret
  /\ SharedSecretBytes(bres.pre.keyPair) \in zeroed
  /\ state.null

\* C27: a session is marked ready only with an AES key derived from a
\* decapsulation with that session's own secret key, also when reset() and a
\* key generation run while completeKeyExchange is suspended at await
\* deriveAesKey.
C27_ReadyWithOwnKey ==
  isReady(state)
    => /\ state.sharedSecret.secretKey = state.keyPair
       /\ state.aesKey = deriveAesKey(state.sharedSecret)

\* C28: every promise returned by waitForReady eventually settles, and settles
\* once: a settled promise never changes, a pending one is resolved only by a
\* successful completeKeyExchange that finds its callback registered, and is
\* rejected only by its own timeout, under every interleaving with reset,
\* generateKeyPair and failed completeKeyExchange calls.
C28_WaitForReadySettlesOnce ==
  /\ \A w \in WaiterIds :
       (waiters[w].promise = "pending")
         ~> (waiters[w].promise \in {"resolved", "rejected"})
  /\ [][\A w \in WaiterIds :
          /\ waiters[w].promise \in {"resolved", "rejected"}
               => waiters'[w].promise = waiters[w].promise
          /\ (waiters[w].promise = "pending" /\ waiters'[w].promise = "resolved")
               => /\ w \in Range(onReadyCallbacks)
                  /\ bres'.op = "completeKeyExchange"
                  /\ bres'.result = "true"
          /\ (waiters[w].promise = "pending" /\ waiters'[w].promise = "rejected")
               => /\ bres'.op = "timeout"
                  /\ bres'.waiter = w
          /\ (waiters[w].promise = "pending" /\ w \in Range(onReadyCallbacks)
                /\ bres'.op = "completeKeyExchange" /\ bres'.result = "true")
               => waiters'[w].promise = "resolved"]_vars

\* C28 witness: a promise whose callback reset() had dropped is rejected by its
\* own timeout, after a later promise was resolved by a successful exchange
C28_Witness ==
  /\ bres.op = "timeout"
  /\ bres.preWaiters[bres.waiter].promise = "pending"
  /\ bres.waiter \notin Range(bres.preCallbacks)
  /\ waiters[bres.waiter].promise = "rejected"
  /\ \E v \in WaiterIds : waiters[v].promise = "resolved" /\ waiters[v].called

-----------------------------------------------------------------------------
(* Worker pool client: further properties                                  *)

\* the requests in flight on worker w: posted to it, their handlers still
\* registered, their promises pending
InFlight(w) == {l.requestId : l \in {m \in listeners : m.worker = w}}

\* C25: the idle timer started by releaseWorker never terminates or removes a
\* worker that has a request in flight (one reacquired since the release or one
\* queued on it), so no promise is left pending on a worker that an idle
\* eviction has terminated.
C25_IdleEvictionSparesInFlight ==
  [][IdleTimeout
       => \A w \in terminated' \ terminated :
            /\ InFlight(w) = {}
            /\ \A r \in RequestIds :
                 request[r].worker = w => promise'[r].state # "pending"]_vars

\* C26: a pooled worker whose busy flag is false has no request in flight, so
\* the worker acquireWorker finds idle is not executing another request.
C26_IdleMeansNoRequest ==
  \A w \in Range(workerPool) : ~pooled[w].busy => InFlight(w) = {}

-----------------------------------------------------------------------------
(* Contexts sharing localStorage: properties                               *)

\* C22: recordFailedAttempt reads the persisted counter and writes it back in
\* two steps. The stored counter never exceeds the number of completed calls
\* and falls short of it only after a call has written over an item that
\* changed since it read it; when that happens two failed attempts are
\* recorded as one, and 5 calls can have completed (none of them a success)
\* with no lockout stored. With no such overwrite 5 completed calls lock.
C22_LostUpdateOnlyByInterleaving ==
  /\ StoredData.failedAttempts <= completed
  /\ ~stale => StoredData.failedAttempts = completed
  /\ (~stale /\ completed >= 5) => StoredData.lockoutUntil # NullTime
  /\ (completed >= 5 /\ StoredData.lockoutUntil = NullTime) => stale

\* C22 witness: 5 recordFailedAttempt calls have completed, none is under way,
\* and the tracker is unlocked with fewer than 5 failures stored
C22_Witness ==
  /\ completed = 5
  /\ \A c \in Contexts : context[c].pc = "idle"
  /\ StoredData.failedAttempts < 5
  /\ StoredData.lockoutUntil = NullTime
  /\ checkLockout(stored, now).isLocked = FALSE

-----------------------------------------------------------------------------
(* PIN call sites: properties                                              *)

\* the call sites that test a PIN the user supplied by decrypting a stored seed
PinTestingSites == {"onChangePinSubmit", "onSubmit", "VERIFY_PIN", "CHANGE_PIN"}

\* C23: every call site that tests a user-supplied PIN by decrypting a stored
\* seed (Settings PIN change, account creation with existing seeds, the native
\* VERIFY_PIN and CHANGE_PIN handlers) calls checkLockout first and dispatches
\* no decryption while the tracker is locked.
C23_NoDecryptionWhileLocked ==
  (flow.op \in PinTestingSites /\ flow.dispatched)
    => /\ flow.checked
       /\ ~flow.locked

\* a PIN change stores the re-encrypted seeds only when every seed was
\* re-encrypted, and otherwise leaves the stored seeds as they were
ChangePinAllOrNothing ==
  flow.op \in {"onChangePinSubmit", "CHANGE_PIN"}
    => /\ flow.outcome # "changed" => seeds = flow.pre
       /\ flow.outcome = "changed"
            => /\ Len(seeds) = Len(flow.pre)
               /\ \A i \in DOMAIN seeds :
                    /\ PinOf(flow.pre[i]) = flow.pin
                    /\ PinOf(seeds[i]) = flow.newPin
                    /\ seeds[i].encryptedData.pt = flow.pre[i].encryptedData.pt

\* C24: in the PIN-change flows (Settings onChangePinSubmit, the native
\* handleChangePinRequest) the stored seeds are overwritten only after every
\* seed was re-encrypted; when the current PIN is wrong or a re-encryption
\* fails no stored seed is modified; and after any PIN-change attempt all the
\* stored seeds are under one common PIN, all the old one or all the new one.
C24_ChangePinKeepsCommonPin ==
  /\ ChangePinAllOrNothing
  /\ flow.op \in {"onChangePinSubmit", "CHANGE_PIN"}
       => CommonPin(seeds)

====
